---------------------------- MODULE Spec2Model ----------------------------
(***************************************************************************)
(* A model of the ECS core of rohingosling/ecs-game-engine: EntityManager, *)
(* ComponentArray, ComponentManager, System and World, and of the layer on  *)
(* top of it: CommandManager, Engine and the demos' main code.             *)
(*                                                                         *)
(* The model is of a build in which assert() is active: a failed assert    *)
(* aborts the program (aborted = TRUE) at the statement that holds it, so  *)
(* the effects of the statements before it are kept and nothing runs       *)
(* afterwards.                                                             *)
(*                                                                         *)
(* The specifications share the variables:                                 *)
(*   Spec        the World facade: registerComponent, registerSystem,      *)
(*               createEntity, destroyEntity, addComponent, removeComponent*)
(*   SpecEntity  createEntity and destroyEntity alone                      *)
(*   SpecArray   one ComponentArray driven directly through the handle     *)
(*               World::getComponentArray returns: insert, remove,         *)
(*               entityDestroyed and writes through get                    *)
(*   SpecUpdate  registerSystem, the public enabled flag and updateSystems *)
(*   SpecMembership  the World after main()'s registrations: entities and  *)
(*               components only                                           *)
(*   SpecTraverse  the same with updateSystems taken step by step and the  *)
(*               World called from inside a system's update                *)
(*   SpecRegistry  component registration and the calls that look a type up*)
(*   SpecQuery   the World's queries (isAlive, hasComponent, getSystem,    *)
(*               makeSignature) between its mutating calls                 *)
(*   SpecDestroy destroyEntity taken statement by statement                *)
(*   SpecLive    the World with destroyEntity called on live ids only      *)
(*   SpecBits    one component type more than a Signature has bits         *)
(*   SpecGuarded the World with addComponent, removeComponent and          *)
(*               destroyEntity called on live ids only                     *)
(*   SpecEngine  CommandManager and the loop of Engine::run, one thread    *)
(*   SpecEngineFair  the same, the main thread never stopping for good     *)
(*   SpecHello   hello_world's main thread and its detached input thread   *)
(*   SpecApplication  particle_demo's Application: constructor and run     *)
(***************************************************************************)
EXTENDS Integers, Sequences, FiniteSets, TLC

(***************************************************************************)
(* Bounds of the model.                                                    *)
(***************************************************************************)

\* MAX_ENTITIES of Entity.h (4096 there), scaled down.
MAX_ENTITIES == 2

\* destroyEntity pushes an id on every call, live or not.  The model stops
\* destroying when the pool holds MAX_ENTITIES + PoolSlack ids (Spec) or
\* MAX_ENTITIES + EntityPoolSlack ids (SpecEntity).
PoolSlack == 0

EntityPoolSlack == 2

\* Spec attaches component values 1..MaxValue.
MaxValue == 1

\* Number of System objects registerSystem may construct.
MaxSystems == 2

\* Loop iterations of Engine::run the model follows.
MaxFrames == 3

\* post calls the model follows.
MaxCommands == 3

\* Engines Application::run creates in the model.
MaxEngines == 8

\* MAX_COMPONENTS of Signature.h (64 there), scaled down: the width of the
\* std::bitset a Signature is.
MAX_COMPONENTS == 2

(***************************************************************************)
(* Types of the program.                                                   *)
(***************************************************************************)

\* Entity.h: NULL_ENTITY.
NULL_ENTITY == 0

\* Entity ids the callers pass: the null id, the valid range, and one id
\* above the range standing for every id > MAX_ENTITIES.
Entity == 0 .. (MAX_ENTITIES + 1)

\* The ids EntityManager's constructor seeds the pool with.
ValidEntity == 1 .. MAX_ENTITIES

\* The component types of the application (template arguments).
ComponentType == {"Position", "Velocity"}

\* The values a component may hold.
Value == 1 .. MaxValue

\* System names passed to registerSystem / getSystem.
SystemName == {"a", "b"}

\* SpecArray stores component values 1..MaxArrayValue.
MaxArrayValue == 2

ArrayValue == 1 .. MaxArrayValue

\* The empty std::bitset: a Signature is the set of its set bit indices.
EmptySignature == {}

(***************************************************************************)
(* State.                                                                  *)
(***************************************************************************)
VARIABLES
    availableIds,    \* EntityManager::availableIds   (std::queue, head first)
    signatures,      \* EntityManager::signatures     (array indexed 0..MAX_ENTITIES)
    livingCount,     \* EntityManager::livingCount    (uint32_t, see U32)
    typeToBit,       \* ComponentManager::typeToBit   (map type -> bit)
    typeToArray,     \* ComponentManager::typeToArray (map type -> ComponentArray)
    nextBit,         \* ComponentManager::nextBit
    systemObjects,   \* the System objects registerSystem has constructed, by handle
    systems,         \* World::systems      (map name -> handle)
    systemOrder,     \* World::systemOrder  (vector of names)
    updateLog,       \* handles whose update() the last updateSystems invoked, in order
    aborted,         \* TRUE once an assert has failed
    iter,            \* the running frame: position in systemOrder and the
                     \* iterator of the range-for of the system being updated
    live,            \* history: ids returned by createEntity and not destroyed since
    last,            \* history: the call that produced this state
    commandQueue,    \* CommandManager::commandQueue (std::queue, head first)
    running,         \* Engine::running
    pc,              \* where the main thread is in Engine::run
    frame,           \* history: number of the loop iteration of Engine::run
    posted,          \* history: number of post calls made so far
    executed,        \* history: the commands flush has invoked, in order
    inputThread,     \* where hello_world's detached input thread is
    raced,           \* TRUE once two threads were inside commandQueue at once
    applicationState,\* Application::applicationState
    cacheState,      \* globalCache entry "applicationState"
    window,          \* outcome of window.create in Application's constructor
    appPc,           \* where the main thread is in Application
    engines          \* history: the engines Application::run has created and run

vars == <<availableIds, signatures, livingCount, typeToBit, typeToArray, nextBit,
          systemObjects, systems, systemOrder, updateLog, aborted, iter, live, last,
          commandQueue, running, pc, frame, posted, executed, inputThread, raced,
          applicationState, cacheState, window, appPc, engines>>

emVars  == <<availableIds, signatures, livingCount>>
cmVars  == <<typeToBit, typeToArray, nextBit>>
sysVars == <<systemObjects, systems, systemOrder>>
engVars == <<commandQueue, running, pc, frame, posted, executed, inputThread, raced>>
appVars == <<applicationState, cacheState, window, appPc, engines>>

(***************************************************************************)
(* uint32_t arithmetic.  TLC's integers are 32-bit signed, so a uint32_t   *)
(* value u is held as its representative r with u = r mod 2^32:            *)
(* r >= 0 stands for r, r < 0 stands for 2^32 + r (what --0 wraps to).     *)
(***************************************************************************)
U32Inc(r) == r + 1

U32Dec(r) == r - 1

\* a < b on the unsigned values of two representatives.
U32Less(a, b) ==
    IF (a < 0) = (b < 0) THEN a < b ELSE b < 0

(***************************************************************************)
(* Finite maps (std::unordered_map).                                       *)
(***************************************************************************)
EmptyMap == << >>

MapPut(m, k, v) == [x \in (DOMAIN m) \cup {k} |-> IF x = k THEN v ELSE m[x]]

MapErase(m, k) == [x \in (DOMAIN m) \ {k} |-> m[x]]

\* vector::pop_back
PopBack(s) == SubSeq(s, 1, Len(s) - 1)

(***************************************************************************)
(* ComponentArray<T>.  Dense indices are 0-based as in the code; the two   *)
(* vectors are sequences, so index i is element i + 1.                     *)
(***************************************************************************)
NewComponentArray ==
    [components |-> << >>, entityToIndex |-> EmptyMap, indexToEntity |-> << >>]

ComponentArray_has(a, entity) == entity \in DOMAIN a.entityToIndex

ComponentArray_size(a) == Len(a.components)

ComponentArray_get(a, entity) == a.components[a.entityToIndex[entity] + 1]

\* insert, past its assert.
ComponentArray_insert(a, entity, component) ==
    LET newIndex == Len(a.components)
    IN  [components    |-> Append(a.components, component),
         entityToIndex |-> MapPut(a.entityToIndex, entity, newIndex),
         indexToEntity |-> Append(a.indexToEntity, entity)]

\* remove that leaves the relocated entity's entry of entityToIndex as it was.
ComponentArray_remove_staleIndex(a, entity) ==
    LET removedIndex == a.entityToIndex[entity]
        lastIndex    == Len(a.components) - 1
        lastEntity   == a.indexToEntity[lastIndex + 1]
        moved ==
            IF removedIndex # lastIndex
            THEN [components    |-> [a.components EXCEPT ![removedIndex + 1] = a.components[lastIndex + 1]],
                  entityToIndex |-> a.entityToIndex,
                  indexToEntity |-> [a.indexToEntity EXCEPT ![removedIndex + 1] = lastEntity]]
            ELSE a
    IN  [components    |-> PopBack(moved.components),
         entityToIndex |-> MapErase(moved.entityToIndex, entity),
         indexToEntity |-> PopBack(moved.indexToEntity)]

\* remove that relocates the last entity in both maps but leaves the removed
\* value in the slot.
ComponentArray_remove_noCopy(a, entity) ==
    LET removedIndex == a.entityToIndex[entity]
        lastIndex    == Len(a.components) - 1
        lastEntity   == a.indexToEntity[lastIndex + 1]
        moved ==
            IF removedIndex # lastIndex
            THEN [components    |-> a.components,
                  entityToIndex |-> [a.entityToIndex EXCEPT ![lastEntity] = removedIndex],
                  indexToEntity |-> [a.indexToEntity EXCEPT ![removedIndex + 1] = lastEntity]]
            ELSE a
    IN  [components    |-> PopBack(moved.components),
         entityToIndex |-> MapErase(moved.entityToIndex, entity),
         indexToEntity |-> PopBack(moved.indexToEntity)]

\* remove that closes the gap by shifting every later element down one slot.
ComponentArray_remove_shift(a, entity) ==
    LET removedIndex == a.entityToIndex[entity]
        Drop(q) == [k \in 1 .. (Len(q) - 1) |-> IF k <= removedIndex THEN q[k] ELSE q[k + 1]]
    IN  [components    |-> Drop(a.components),
         entityToIndex |-> [x \in DOMAIN a.entityToIndex \ {entity} |->
                              IF a.entityToIndex[x] > removedIndex
                              THEN a.entityToIndex[x] - 1
                              ELSE a.entityToIndex[x]],
         indexToEntity |-> Drop(a.indexToEntity)]

\* remove, past its assert: swap-and-pop.
ComponentArray_remove(a, entity) ==
    LET removedIndex == a.entityToIndex[entity]
        lastIndex    == Len(a.components) - 1
        lastEntity   == a.indexToEntity[lastIndex + 1]
        moved ==
            IF removedIndex # lastIndex
            THEN [components    |-> [a.components EXCEPT ![removedIndex + 1] = a.components[lastIndex + 1]],
                  entityToIndex |-> [a.entityToIndex EXCEPT ![lastEntity] = removedIndex],
                  indexToEntity |-> [a.indexToEntity EXCEPT ![removedIndex + 1] = lastEntity]]
            ELSE a
    IN  [components    |-> PopBack(moved.components),
         entityToIndex |-> MapErase(moved.entityToIndex, entity),
         indexToEntity |-> PopBack(moved.indexToEntity)]

\* entityDestroyed that drops the tail slot without the swap.
ComponentArray_entityDestroyed_popBack(a, entity) ==
    IF ComponentArray_has(a, entity)
    THEN ComponentArray_remove(a, a.indexToEntity[Len(a.indexToEntity)])
    ELSE a

ComponentArray_entityDestroyed(a, entity) ==
    IF ComponentArray_has(a, entity) THEN ComponentArray_remove(a, entity) ELSE a

\* A write through the reference get() returns.
ComponentArray_set(a, entity, component) ==
    [a EXCEPT !.components[a.entityToIndex[entity] + 1] = component]

(***************************************************************************)
(* ComponentManager.                                                       *)
(***************************************************************************)
\* getBit<T>(), past its assert.
ComponentManager_getBit(T) == typeToBit[T]

\* registerComponent<T>() with nextBit left as it was.
ComponentManager_registerComponent_noIncrement(T) ==
    IF T \in DOMAIN typeToBit
    THEN /\ aborted' = TRUE
         /\ UNCHANGED <<typeToBit, typeToArray, nextBit>>
    ELSE /\ typeToBit'   = MapPut(typeToBit, T, nextBit)
         /\ typeToArray' = MapPut(typeToArray, T, NewComponentArray)
         /\ nextBit'     = nextBit
         /\ UNCHANGED aborted

\* registerComponent<T>() without its assert: a registered T is given the next
\* bit and a new store.
ComponentManager_registerComponent_again(T) ==
    /\ typeToBit'   = MapPut(typeToBit, T, nextBit)
    /\ typeToArray' = MapPut(typeToArray, T, NewComponentArray)
    /\ nextBit'     = nextBit + 1
    /\ UNCHANGED aborted

ComponentManager_registerComponent(T) ==
    IF T \in DOMAIN typeToBit
    THEN \* "Registering component type more than once."
         /\ aborted' = TRUE
         /\ UNCHANGED <<typeToBit, typeToArray, nextBit>>
    ELSE /\ typeToBit'   = MapPut(typeToBit, T, nextBit)
         /\ typeToArray' = MapPut(typeToArray, T, NewComponentArray)
         /\ nextBit'     = nextBit + 1
         /\ UNCHANGED aborted

\* entityDestroyed that tells no array.
ComponentManager_entityDestroyed_skip(arrays, entity) == arrays

\* entityDestroyed: every registered array is told.
ComponentManager_entityDestroyed(arrays, entity) ==
    [T \in DOMAIN arrays |-> ComponentArray_entityDestroyed(arrays[T], entity)]

(***************************************************************************)
(* World: queries and the membership refresh.                              *)
(***************************************************************************)
InRange(entity) == entity > NULL_ENTITY /\ entity <= MAX_ENTITIES

\* std::bitset<MAX_COMPONENTS>::set / reset accept the positions below the
\* width and throw std::out_of_range for any other; no caller catches it.
BitInRange(bit) == bit < MAX_COMPONENTS

\* Signature: (entitySignature & systemSig) == systemSig
Matches(entitySignature, systemSig) ==
    (entitySignature \cap systemSig) = systemSig

\* isAlive with the range test entity >= MAX_ENTITIES.
World_isAlive_offByOne(entity) ==
    IF entity = NULL_ENTITY \/ entity >= MAX_ENTITIES
    THEN FALSE
    ELSE signatures[entity] # EmptySignature

World_isAlive(entity) ==
    IF entity = NULL_ENTITY \/ entity > MAX_ENTITIES
    THEN FALSE
    ELSE signatures[entity] # EmptySignature

\* The handles the name map holds: what `for (auto& [name, system] : systems)` visits.
MappedHandles == {systems[n] : n \in DOMAIN systems}

\* The refresh with the test (entitySignature & systemSig).any().
World_updateSystemEntitySets_anyBit(objs, entity, entitySignature) ==
    [h \in DOMAIN objs |->
        IF h \in MappedHandles
        THEN IF (entitySignature \cap objs[h].signature) # EmptySignature
             THEN [objs[h] EXCEPT !.entities = @ \cup {entity}]
             ELSE [objs[h] EXCEPT !.entities = @ \ {entity}]
        ELSE objs[h]]

\* The refresh with entities.clear() where the code has entities.erase(entity).
World_updateSystemEntitySets_clear(objs, entity, entitySignature) ==
    [h \in DOMAIN objs |->
        IF h \in MappedHandles
        THEN IF Matches(entitySignature, objs[h].signature)
             THEN [objs[h] EXCEPT !.entities = @ \cup {entity}]
             ELSE [objs[h] EXCEPT !.entities = {}]
        ELSE objs[h]]

World_updateSystemEntitySets(objs, entity, entitySignature) ==
    [h \in DOMAIN objs |->
        IF h \in MappedHandles
        THEN IF Matches(entitySignature, objs[h].signature)
             THEN [objs[h] EXCEPT !.entities = @ \cup {entity}]
             ELSE [objs[h] EXCEPT !.entities = @ \ {entity}]
        ELSE objs[h]]

\* destroyEntity without its first loop.
EraseFromSystems_skip(objs, entity) == objs

\* The first loop of destroyEntity.
\* The erase loop as a clear() of every system's set.
EraseFromSystems_clear(objs, entity) ==
    [h \in DOMAIN objs |->
        IF h \in MappedHandles
        THEN [objs[h] EXCEPT !.entities = {}]
        ELSE objs[h]]

EraseFromSystems(objs, entity) ==
    [h \in DOMAIN objs |->
        IF h \in MappedHandles
        THEN [objs[h] EXCEPT !.entities = @ \ {entity}]
        ELSE objs[h]]

\* makeSignature<Ts...>() for registered types Ts.
\* makeSignature that sets every bit up to the listed type's bit.
World_makeSignature_upTo(Ts) ==
    {b \in 0 .. (nextBit - 1) : \E T \in Ts : b <= ComponentManager_getBit(T)}

World_makeSignature(Ts) == {ComponentManager_getBit(T) : T \in Ts}

(***************************************************************************)
(* The traversal `for (auto entity : entities)` of a system's update.      *)
(* iter.index is the position of updateSystems in systemOrder (0: no frame *)
(* is running), iter.handle the system being updated, iter.entity the      *)
(* element the std::set iterator is at (EndOfSet: entities.end()), and     *)
(* iter.dangling is TRUE once that element has been erased from the set:   *)
(* std::set::erase invalidates the iterators to the erased element only,   *)
(* and insert invalidates none.                                            *)
(***************************************************************************)
\* entities.end()
EndOfSet == MAX_ENTITIES + 2

NoIter == [index |-> 0, handle |-> 0, entity |-> EndOfSet, dangling |-> FALSE]

\* The iterator is at an element of the set it traverses.
AtElement == iter.index > 0 /\ iter.entity # EndOfSet

\* What a change of the entity sets does to the running traversal.  A call
\* of the World touches no member of the Engine that owns it.
IterFollows ==
    /\ iter' = IF /\ AtElement
                  /\ ~iter.dangling
                  /\ iter.entity \in systemObjects[iter.handle].entities
                  /\ iter.entity \notin systemObjects'[iter.handle].entities
               THEN [iter EXCEPT !.dangling = TRUE]
               ELSE iter
    /\ UNCHANGED <<engVars, appVars>>

\* The application states of Application.h.
STATE_IDLE == 0
STATE_STARTING == 1
STATE_STOPPING == 2
STATE_MENU_MAIN == 10
STATE_MENU_SETTINGS == 11
STATE_MENU_INSTRUCTIONS == 12
STATE_MENU_ABOUT == 13
STATE_LEVEL_PARTICLE_SIMULATION == 100

\* No Application object has been constructed; applicationState has its
\* default member initializer.
NoApplication ==
    /\ applicationState = STATE_STARTING
    /\ cacheState       = STATE_IDLE
    /\ window           = "none"
    /\ appPc            = "new"
    /\ engines          = << >>

\* A default-constructed Engine whose run() has not been called: an empty
\* command queue, running = false, no second thread.
EngineIdle ==
    /\ commandQueue = << >>
    /\ running      = FALSE
    /\ pc           = "main"
    /\ frame        = 0
    /\ posted       = 0
    /\ executed     = << >>
    /\ inputThread  = "none"
    /\ raced        = FALSE

(***************************************************************************)
(* Initial state: a default-constructed World.                             *)
(***************************************************************************)
\* The constructor with its seeding loop run from 0 to MAX_ENTITIES - 1.
Init_poolFromZero ==
    /\ availableIds  = [i \in 1 .. MAX_ENTITIES |-> i - 1]
    /\ signatures    = [e \in 0 .. MAX_ENTITIES |-> EmptySignature]
    /\ livingCount   = 0
    /\ typeToBit     = EmptyMap
    /\ typeToArray   = EmptyMap
    /\ nextBit       = 0
    /\ systemObjects = << >>
    /\ systems       = EmptyMap
    /\ systemOrder   = << >>
    /\ updateLog     = << >>
    /\ aborted       = FALSE
    /\ iter          = NoIter
    /\ EngineIdle
    /\ NoApplication
    /\ live          = {}
    /\ last          = [op |-> "World", entity |-> NULL_ENTITY, type |-> "none"]

Init ==
    /\ availableIds  = [i \in 1 .. MAX_ENTITIES |-> i]
    /\ signatures    = [e \in 0 .. MAX_ENTITIES |-> EmptySignature]
    /\ livingCount   = 0
    /\ typeToBit     = EmptyMap
    /\ typeToArray   = EmptyMap
    /\ nextBit       = 0
    /\ systemObjects = << >>
    /\ systems       = EmptyMap
    /\ systemOrder   = << >>
    /\ updateLog     = << >>
    /\ aborted       = FALSE
    /\ iter          = NoIter
    /\ EngineIdle
    /\ NoApplication
    /\ live          = {}
    /\ last          = [op |-> "World", entity |-> NULL_ENTITY, type |-> "none"]

Abort == aborted' = TRUE

(***************************************************************************)
(* World operations.                                                       *)
(***************************************************************************)
\* The bound on the pool's growth: a destroyEntity that would push its id is
\* taken only while the pool holds fewer than MAX_ENTITIES + slack ids.
PoolAdmits(entity, slack) ==
    InRange(entity) => (Len(availableIds) < MAX_ENTITIES + slack)

\* createEntity that reads the front of the queue and leaves it there.
World_createEntity_keepsFront ==
    /\ ~aborted
    /\ IF ~U32Less(livingCount, MAX_ENTITIES)
       THEN /\ Abort
            /\ last' = [op |-> "createEntity", entity |-> NULL_ENTITY, type |-> "none"]
            /\ UNCHANGED <<emVars, live>>
       ELSE \E id \in (IF availableIds = << >> THEN Entity ELSE {Head(availableIds)}) :
                /\ availableIds' = availableIds
                /\ livingCount'  = U32Inc(livingCount)
                /\ live'         = live \cup {id}
                /\ last'         = [op |-> "createEntity", entity |-> id, type |-> "none"]
                /\ UNCHANGED <<signatures, aborted>>
    /\ UNCHANGED <<cmVars, sysVars, updateLog>>

World_createEntity ==
    /\ ~aborted
    /\ IF ~U32Less(livingCount, MAX_ENTITIES)
       THEN /\ Abort
            /\ last' = [op |-> "createEntity", entity |-> NULL_ENTITY, type |-> "none"]
            /\ UNCHANGED <<emVars, live>>
       ELSE \* front() of an empty queue is undefined: any id may come back.
            \E id \in (IF availableIds = << >> THEN Entity ELSE {Head(availableIds)}) :
                /\ availableIds' = (IF availableIds = << >> THEN << >> ELSE Tail(availableIds))
                /\ livingCount'  = U32Inc(livingCount)
                /\ live'         = live \cup {id}
                /\ last'         = [op |-> "createEntity", entity |-> id, type |-> "none"]
                /\ UNCHANGED <<signatures, aborted>>
    /\ UNCHANGED <<cmVars, sysVars, updateLog>>

World_destroyEntity(entity) ==
    /\ ~aborted
    /\ systemObjects' = EraseFromSystems(systemObjects, entity)
    /\ typeToArray'   = ComponentManager_entityDestroyed(typeToArray, entity)
    /\ last'          = [op |-> "destroyEntity", entity |-> entity, type |-> "none"]
    /\ IF ~InRange(entity)
       THEN /\ Abort
            /\ UNCHANGED <<emVars, live>>
       ELSE /\ signatures'   = [signatures EXCEPT ![entity] = EmptySignature]
            /\ availableIds' = Append(availableIds, entity)
            /\ livingCount'  = U32Dec(livingCount)
            /\ live'         = live \ {entity}
            /\ UNCHANGED aborted
    /\ UNCHANGED <<typeToBit, nextBit, systems, systemOrder, updateLog>>

World_registerComponent(T) ==
    /\ ~aborted
    /\ last' = [op |-> "registerComponent", entity |-> NULL_ENTITY, type |-> T]
    /\ ComponentManager_registerComponent(T)
    /\ UNCHANGED <<emVars, sysVars, updateLog, live>>

\* addComponent whose store assigns entityToIndex-wise: a second add to the same
\* entity overwrites the stored value and goes on.
World_addComponent_overwrite(T, entity, component) ==
    /\ ~aborted
    /\ last' = [op |-> "addComponent", entity |-> entity, type |-> T]
    /\ IF T \notin DOMAIN typeToArray
       THEN /\ Abort
            /\ UNCHANGED <<typeToArray, signatures, systemObjects>>
       ELSE /\ typeToArray' =
                 [typeToArray EXCEPT ![T] =
                     IF ComponentArray_has(@, entity)
                     THEN ComponentArray_set(@, entity, component)
                     ELSE ComponentArray_insert(@, entity, component)]
            /\ IF ~InRange(entity)
               THEN /\ Abort
                    /\ UNCHANGED <<signatures, systemObjects>>
               ELSE LET signature == signatures[entity] \cup {ComponentManager_getBit(T)}
                    IN  /\ signatures'    = [signatures EXCEPT ![entity] = signature]
                        /\ systemObjects' =
                             World_updateSystemEntitySets(systemObjects, entity, signature)
                        /\ UNCHANGED aborted
    /\ UNCHANGED <<availableIds, livingCount, typeToBit, nextBit, systems, systemOrder,
                   updateLog, live>>

World_addComponent(T, entity, component) ==
    /\ ~aborted
    /\ last' = [op |-> "addComponent", entity |-> entity, type |-> T]
    /\ IF T \notin DOMAIN typeToArray
       THEN \* getComponentArray: "Component not registered before use."
            /\ Abort
            /\ UNCHANGED <<typeToArray, signatures, systemObjects>>
       ELSE IF ComponentArray_has(typeToArray[T], entity)
       THEN \* insert: "Component added to same entity twice."
            /\ Abort
            /\ UNCHANGED <<typeToArray, signatures, systemObjects>>
       ELSE /\ typeToArray' =
                 [typeToArray EXCEPT ![T] = ComponentArray_insert(@, entity, component)]
            /\ IF ~InRange(entity)
               THEN \* getSignature: "Entity out of range."
                    /\ Abort
                    /\ UNCHANGED <<signatures, systemObjects>>
               ELSE IF ~BitInRange(ComponentManager_getBit(T))
               THEN \* signature.set throws std::out_of_range
                    /\ Abort
                    /\ UNCHANGED <<signatures, systemObjects>>
               ELSE LET signature == signatures[entity] \cup {ComponentManager_getBit(T)}
                    IN  /\ signatures'    = [signatures EXCEPT ![entity] = signature]
                        /\ systemObjects' =
                             World_updateSystemEntitySets(systemObjects, entity, signature)
                        /\ UNCHANGED aborted
    /\ UNCHANGED <<availableIds, livingCount, typeToBit, nextBit, systems, systemOrder,
                   updateLog, live>>

\* removeComponent without signature.reset: the refresh gets the old signature.
World_removeComponent_keepsBit(T, entity) ==
    /\ ~aborted
    /\ last' = [op |-> "removeComponent", entity |-> entity, type |-> T]
    /\ IF T \notin DOMAIN typeToArray
       THEN /\ Abort
            /\ UNCHANGED <<typeToArray, signatures, systemObjects>>
       ELSE IF ~ComponentArray_has(typeToArray[T], entity)
       THEN /\ Abort
            /\ UNCHANGED <<typeToArray, signatures, systemObjects>>
       ELSE /\ typeToArray' =
                 [typeToArray EXCEPT ![T] = ComponentArray_remove(@, entity)]
            /\ IF ~InRange(entity)
               THEN /\ Abort
                    /\ UNCHANGED <<signatures, systemObjects>>
               ELSE LET signature == signatures[entity]
                    IN  /\ signatures'    = [signatures EXCEPT ![entity] = signature]
                        /\ systemObjects' =
                             World_updateSystemEntitySets(systemObjects, entity, signature)
                        /\ UNCHANGED aborted
    /\ UNCHANGED <<availableIds, livingCount, typeToBit, nextBit, systems, systemOrder,
                   updateLog, live>>

World_removeComponent(T, entity) ==
    /\ ~aborted
    /\ last' = [op |-> "removeComponent", entity |-> entity, type |-> T]
    /\ IF T \notin DOMAIN typeToArray
       THEN \* getComponentArray: "Component not registered before use."
            /\ Abort
            /\ UNCHANGED <<typeToArray, signatures, systemObjects>>
       ELSE IF ~ComponentArray_has(typeToArray[T], entity)
       THEN \* remove: "Removing non-existent component."
            /\ Abort
            /\ UNCHANGED <<typeToArray, signatures, systemObjects>>
       ELSE /\ typeToArray' =
                 [typeToArray EXCEPT ![T] = ComponentArray_remove(@, entity)]
            /\ IF ~InRange(entity)
               THEN \* getSignature: "Entity out of range."
                    /\ Abort
                    /\ UNCHANGED <<signatures, systemObjects>>
               ELSE IF ~BitInRange(ComponentManager_getBit(T))
               THEN \* signature.reset throws std::out_of_range
                    /\ Abort
                    /\ UNCHANGED <<signatures, systemObjects>>
               ELSE LET signature == signatures[entity] \ {ComponentManager_getBit(T)}
                    IN  /\ signatures'    = [signatures EXCEPT ![entity] = signature]
                        /\ systemObjects' =
                             World_updateSystemEntitySets(systemObjects, entity, signature)
                        /\ UNCHANGED aborted
    /\ UNCHANGED <<availableIds, livingCount, typeToBit, nextBit, systems, systemOrder,
                   updateLog, live>>

\* getComponent<T>(entity): a reference into the store, or an assert.
World_getComponent(T, entity) ==
    /\ ~aborted
    /\ last' = [op |-> "getComponent", entity |-> entity, type |-> T]
    /\ IF T \notin DOMAIN typeToArray
       THEN \* getComponentArray: "Component not registered before use."
            Abort
       ELSE IF ~ComponentArray_has(typeToArray[T], entity)
       THEN \* get: "Retrieving non-existent component."
            Abort
       ELSE UNCHANGED aborted
    /\ UNCHANGED <<emVars, cmVars, sysVars, updateLog, live>>

\* The call isAlive(entity): the early return, else getSignature with its
\* range assert.
World_isAlive_call(entity) ==
    /\ ~aborted
    /\ last' = [op |-> "isAlive", entity |-> entity, type |-> "none"]
    /\ IF entity = NULL_ENTITY \/ entity > MAX_ENTITIES
       THEN UNCHANGED aborted
       ELSE IF ~InRange(entity)
       THEN \* getSignature: "Entity out of range."
            Abort
       ELSE UNCHANGED aborted
    /\ UNCHANGED <<emVars, cmVars, sysVars, updateLog, live>>

\* hasComponent<T>(entity), past getComponentArray's assert.
ComponentManager_hasComponent(T, entity) == ComponentArray_has(typeToArray[T], entity)

\* hasComponent<T>(entity) with the range assert of getSignature in front.
World_hasComponent_assertsRange(T, entity) ==
    /\ ~aborted
    /\ last' = [op |-> "hasComponent", entity |-> entity, type |-> T]
    /\ IF T \notin DOMAIN typeToArray \/ ~InRange(entity)
       THEN Abort
       ELSE UNCHANGED aborted
    /\ UNCHANGED <<emVars, cmVars, sysVars, updateLog, live>>

\* hasComponent<T>(entity): a bool, or getComponentArray's assert.
World_hasComponent(T, entity) ==
    /\ ~aborted
    /\ last' = [op |-> "hasComponent", entity |-> entity, type |-> T]
    /\ IF T \notin DOMAIN typeToArray
       THEN Abort
       ELSE UNCHANGED aborted
    /\ UNCHANGED <<emVars, cmVars, sysVars, updateLog, live>>

\* getBit<T>(): the bit, or "Component not registered before use."
ComponentManager_getBit_call(T) ==
    /\ ~aborted
    /\ last' = [op |-> "getBit", entity |-> NULL_ENTITY, type |-> T]
    /\ IF T \notin DOMAIN typeToBit
       THEN Abort
       ELSE UNCHANGED aborted
    /\ UNCHANGED <<emVars, cmVars, sysVars, updateLog, live>>

\* The template argument list of a makeSignature call, as recorded in "last":
\* the type itself for a list of one, "" for the empty list.
PackName(Ts) ==
    IF Ts = {} THEN ""
    ELSE IF Cardinality(Ts) = 1 THEN CHOOSE T \in Ts : TRUE
    ELSE "..."

\* makeSignature<T1, ..., Tn>(): a default Signature, then signature.set of
\* getBit<Ti>() for each listed type; the Signature is returned by value.
World_makeSignature_pack(Ts) ==
    /\ ~aborted
    /\ last' = [op |-> "makeSignature", entity |-> NULL_ENTITY, type |-> PackName(Ts)]
    /\ IF \E T \in Ts : T \notin DOMAIN typeToBit
       THEN Abort
       ELSE IF \E T \in Ts : ~BitInRange(ComponentManager_getBit(T))
       THEN \* signature.set throws std::out_of_range
            Abort
       ELSE UNCHANGED aborted
    /\ UNCHANGED <<emVars, cmVars, sysVars, updateLog, live>>

\* makeSignature<T>(): getBit<T>() folded into a Signature.
World_makeSignature_call(T) == World_makeSignature_pack({T})

\* nullptr
NullHandle == 0

\* getSystem(name) with systems[name] where the code has systems.find(name):
\* operator[] inserts a null entry for a name the map does not hold.
World_getSystem_call_inserts(name) ==
    /\ ~aborted
    /\ last' = [op |-> "getSystem", entity |-> NULL_ENTITY, type |-> name]
    /\ systems' = IF name \in DOMAIN systems THEN systems ELSE MapPut(systems, name, NullHandle)
    /\ UNCHANGED <<emVars, cmVars, systemObjects, systemOrder, updateLog, aborted, live>>

\* What getSystem(name) returns.
World_getSystem(name) ==
    IF name \in DOMAIN systems THEN systems[name] ELSE NullHandle

\* The call getSystem(name): a find in the name map.
World_getSystem_call(name) ==
    /\ ~aborted
    /\ last' = [op |-> "getSystem", entity |-> NULL_ENTITY, type |-> name]
    /\ UNCHANGED <<emVars, cmVars, sysVars, updateLog, aborted, live>>

\* The names a caller registers a system under.  The code treats names alike, so
\* the first system is registered as "a" and later ones under any name.
RegisterableNames == IF systemOrder = << >> THEN {"a"} ELSE SystemName

\* The signatures a caller can build with makeSignature.
MakeableSignatures == {World_makeSignature(Ts) : Ts \in SUBSET (DOMAIN typeToBit)}

\* registerSystem that fills the new system's set with the matching entities.
World_registerSystem_retroactive(name, signature) ==
    /\ ~aborted
    /\ Len(systemObjects) < MaxSystems
    /\ LET system == [name |-> name, signature |-> signature,
                      enabled |-> TRUE,
                      entities |-> {e \in ValidEntity : /\ World_isAlive(e)
                                                        /\ Matches(signatures[e], signature)}]
           handle == Len(systemObjects) + 1
       IN  /\ systemObjects' = Append(systemObjects, system)
           /\ systems'       = MapPut(systems, name, handle)
           /\ systemOrder'   = Append(systemOrder, name)
    /\ last' = [op |-> "registerSystem", entity |-> NULL_ENTITY, type |-> name]
    /\ UNCHANGED <<emVars, cmVars, updateLog, aborted, live>>

World_registerSystem(name, signature) ==
    /\ ~aborted
    /\ Len(systemObjects) < MaxSystems
    /\ LET system == [name |-> name, signature |-> signature,
                      enabled |-> TRUE, entities |-> {}]
           handle == Len(systemObjects) + 1
       IN  /\ systemObjects' = Append(systemObjects, system)
           /\ systems'       = MapPut(systems, name, handle)
           /\ systemOrder'   = Append(systemOrder, name)
    /\ last' = [op |-> "registerSystem", entity |-> NULL_ENTITY, type |-> name]
    /\ UNCHANGED <<emVars, cmVars, updateLog, aborted, live>>

\* System::enabled is a public field: any holder of the handle may write it.
System_setEnabled(handle, flag) ==
    /\ ~aborted
    /\ handle \in DOMAIN systemObjects
    /\ systemObjects[handle].enabled # flag
    /\ systemObjects' = [systemObjects EXCEPT ![handle].enabled = flag]
    /\ last' = [op |-> "setEnabled", entity |-> NULL_ENTITY, type |-> "none"]
    /\ UNCHANGED <<emVars, cmVars, systems, systemOrder, updateLog, aborted, live>>

\* The update() calls the loop of updateSystems makes from position i on.
RECURSIVE UpdateCalls(_)
UpdateCalls(i) ==
    IF i > Len(systemOrder)
    THEN << >>
    ELSE LET handle == systems[systemOrder[i]]
         IN  (IF systemObjects[handle].enabled THEN <<handle>> ELSE << >>)
                 \o UpdateCalls(i + 1)

\* The update hooks are the application's: the model records the calls only.
World_updateSystems ==
    /\ ~aborted
    /\ updateLog' = UpdateCalls(1)
    /\ last' = [op |-> "updateSystems", entity |-> NULL_ENTITY, type |-> "none"]
    /\ UNCHANGED <<emVars, cmVars, sysVars, aborted, live>>

Next ==
    \/ World_createEntity /\ IterFollows
    \/ \E e \in Entity : PoolAdmits(e, PoolSlack) /\ World_destroyEntity(e) /\ IterFollows
    \/ \E T \in ComponentType : World_registerComponent(T) /\ IterFollows
    \/ \E T \in ComponentType, e \in Entity, c \in Value :
           World_addComponent(T, e, c) /\ IterFollows
    \/ \E T \in ComponentType, e \in Entity : World_removeComponent(T, e) /\ IterFollows
    \/ \E n \in RegisterableNames, s \in MakeableSignatures :
           World_registerSystem(n, s) /\ IterFollows

Spec == Init /\ [][Next]_vars

(***************************************************************************)
(* SpecEntity: createEntity and destroyEntity alone, on a World with no    *)
(* component type and no system, so that both are EntityManager's.         *)
(***************************************************************************)
NextEntity ==
    \/ World_createEntity /\ IterFollows
    \/ \E e \in Entity : PoolAdmits(e, EntityPoolSlack) /\ World_destroyEntity(e) /\ IterFollows

SpecEntity == Init /\ [][NextEntity]_vars

(***************************************************************************)
(* SpecUpdate: system registration, the enabled flag and the frame update. *)
(***************************************************************************)
NextUpdate ==
    \/ \E T \in ComponentType : World_registerComponent(T) /\ IterFollows
    \/ \E n \in RegisterableNames, s \in MakeableSignatures :
           World_registerSystem(n, s) /\ IterFollows
    \/ \E h \in 1 .. MaxSystems, b \in BOOLEAN : System_setEnabled(h, b) /\ IterFollows
    \/ World_updateSystems /\ IterFollows

SpecUpdate == Init /\ [][NextUpdate]_vars

(***************************************************************************)
(* SpecArray: the ComponentArray<Position> of a World in which Position is *)
(* registered, driven through the handle getComponentArray returns.        *)
(***************************************************************************)
ArrayType == "Position"

InitArray ==
    /\ availableIds  = [i \in 1 .. MAX_ENTITIES |-> i]
    /\ signatures    = [e \in 0 .. MAX_ENTITIES |-> EmptySignature]
    /\ livingCount   = 0
    /\ typeToBit     = MapPut(EmptyMap, ArrayType, 0)
    /\ typeToArray   = MapPut(EmptyMap, ArrayType, NewComponentArray)
    /\ nextBit       = 1
    /\ systemObjects = << >>
    /\ systems       = EmptyMap
    /\ systemOrder   = << >>
    /\ updateLog     = << >>
    /\ aborted       = FALSE
    /\ iter          = NoIter
    /\ EngineIdle
    /\ NoApplication
    /\ live          = {}
    /\ last          = [op |-> "registerComponent", entity |-> NULL_ENTITY, type |-> ArrayType]

ArrayFrame ==
    UNCHANGED <<emVars, typeToBit, nextBit, sysVars, updateLog, iter, live, engVars,
                appVars>>

Array_insert(entity, component) ==
    /\ ~aborted
    /\ last' = [op |-> "insert", entity |-> entity, type |-> ArrayType]
    /\ IF ComponentArray_has(typeToArray[ArrayType], entity)
       THEN Abort /\ UNCHANGED typeToArray
       ELSE /\ typeToArray' =
                 [typeToArray EXCEPT ![ArrayType] = ComponentArray_insert(@, entity, component)]
            /\ UNCHANGED aborted
    /\ ArrayFrame

Array_remove(entity) ==
    /\ ~aborted
    /\ last' = [op |-> "remove", entity |-> entity, type |-> ArrayType]
    /\ IF ~ComponentArray_has(typeToArray[ArrayType], entity)
       THEN Abort /\ UNCHANGED typeToArray
       ELSE /\ typeToArray' =
                 [typeToArray EXCEPT ![ArrayType] = ComponentArray_remove(@, entity)]
            /\ UNCHANGED aborted
    /\ ArrayFrame

Array_entityDestroyed(entity) ==
    /\ ~aborted
    /\ last' = [op |-> "entityDestroyed", entity |-> entity, type |-> ArrayType]
    /\ typeToArray' =
         [typeToArray EXCEPT ![ArrayType] = ComponentArray_entityDestroyed(@, entity)]
    /\ UNCHANGED aborted
    /\ ArrayFrame

\* get(entity) = component
Array_write(entity, component) ==
    /\ ~aborted
    /\ last' = [op |-> "get", entity |-> entity, type |-> ArrayType]
    /\ IF ~ComponentArray_has(typeToArray[ArrayType], entity)
       THEN Abort /\ UNCHANGED typeToArray
       ELSE /\ typeToArray' =
                 [typeToArray EXCEPT ![ArrayType] = ComponentArray_set(@, entity, component)]
            /\ UNCHANGED aborted
    /\ ArrayFrame

NextArray ==
    \/ \E e \in Entity, c \in ArrayValue : Array_insert(e, c)
    \/ \E e \in Entity : Array_remove(e)
    \/ \E e \in Entity : Array_entityDestroyed(e)
    \/ \E e \in Entity, c \in ArrayValue : Array_write(e, c)

SpecArray == InitArray /\ [][NextArray]_vars

(***************************************************************************)
(* SpecMembership: the order of main(): the component types are registered,*)
(* then the systems (under distinct names, each with a non-empty required  *)
(* signature), then entities are created and components attached.          *)
(***************************************************************************)
\* The signatures makeSignature builds from at least one of the two types.
SceneSignatures == (SUBSET {0, 1}) \ {EmptySignature}

NewSystem(name, signature) ==
    [name |-> name, signature |-> signature, enabled |-> TRUE, entities |-> {}]

InitScene ==
    /\ availableIds  = [i \in 1 .. MAX_ENTITIES |-> i]
    /\ signatures    = [e \in 0 .. MAX_ENTITIES |-> EmptySignature]
    /\ livingCount   = 0
    /\ typeToBit     = MapPut(MapPut(EmptyMap, "Position", 0), "Velocity", 1)
    /\ typeToArray   = MapPut(MapPut(EmptyMap, "Position", NewComponentArray),
                              "Velocity", NewComponentArray)
    /\ nextBit       = 2
    /\ \E s1, s2 \in SceneSignatures :
           systemObjects = <<NewSystem("a", s1), NewSystem("b", s2)>>
    /\ systems       = MapPut(MapPut(EmptyMap, "a", 1), "b", 2)
    /\ systemOrder   = <<"a", "b">>
    /\ updateLog     = << >>
    /\ aborted       = FALSE
    /\ iter          = NoIter
    /\ EngineIdle
    /\ NoApplication
    /\ live          = {}
    /\ last          = [op |-> "registerSystem", entity |-> NULL_ENTITY, type |-> "b"]

NextMembership ==
    \/ World_createEntity /\ IterFollows
    \/ \E e \in Entity : PoolAdmits(e, PoolSlack) /\ World_destroyEntity(e) /\ IterFollows
    \/ \E T \in ComponentType, e \in Entity, c \in ArrayValue :
           World_addComponent(T, e, c) /\ IterFollows
    \/ \E T \in ComponentType, e \in Entity : World_removeComponent(T, e) /\ IterFollows
    \/ \E T \in ComponentType, e \in Entity : World_getComponent(T, e) /\ IterFollows

SpecMembership == InitScene /\ [][NextMembership]_vars
(***************************************************************************)
(* SpecTraverse: the frame taken step by step.  updateSystems walks        *)
(* systemOrder; an enabled system's update walks its entity set with a     *)
(* range-for, and its body may call createEntity, destroyEntity,           *)
(* addComponent and removeComponent on the World it is handed.             *)
(***************************************************************************)
\* entities.begin(): std::set is ordered by id.
SetBegin(S) == IF S = {} THEN EndOfSet ELSE CHOOSE x \in S : \A y \in S : x <= y

\* ++it at element x of S.
SetNext(S, x) == SetBegin({y \in S : y > x})

\* The loop of updateSystems from position i on: the traversal the first
\* enabled system starts, or NoIter when the loop ends.
RECURSIVE UpdateFrom(_)
UpdateFrom(i) ==
    IF i > Len(systemOrder)
    THEN NoIter
    ELSE LET handle == systems[systemOrder[i]]
         IN  IF systemObjects[handle].enabled
             THEN [index |-> i, handle |-> handle,
                   entity |-> SetBegin(systemObjects[handle].entities),
                   dangling |-> FALSE]
             ELSE UpdateFrom(i + 1)

World_updateSystems_begin ==
    /\ ~aborted
    /\ iter = NoIter
    /\ UpdateFrom(1) # NoIter
    /\ iter' = UpdateFrom(1)
    /\ last' = [op |-> "updateSystems", entity |-> NULL_ENTITY, type |-> "none"]
    /\ UNCHANGED <<emVars, cmVars, sysVars, updateLog, aborted, live, engVars, appVars>>

\* The increment of the range-for.  Incrementing an iterator whose element
\* was erased is undefined: it may land anywhere, or crash.
System_update_advance ==
    /\ ~aborted
    /\ AtElement
    /\ IF iter.dangling
       THEN \/ /\ \E x \in Entity \cup {EndOfSet} : iter' = [iter EXCEPT !.entity = x]
               /\ UNCHANGED aborted
            \/ /\ Abort
               /\ UNCHANGED iter
       ELSE /\ iter' = [iter EXCEPT
                           !.entity = SetNext(systemObjects[iter.handle].entities, iter.entity)]
            /\ UNCHANGED aborted
    /\ last' = [op |-> "update", entity |-> iter.entity, type |-> "none"]
    /\ UNCHANGED <<emVars, cmVars, sysVars, updateLog, live, engVars, appVars>>

\* The range-for has reached end(): update returns and the loop goes on.
System_update_return ==
    /\ ~aborted
    /\ iter.index > 0
    /\ iter.entity = EndOfSet
    /\ iter' = UpdateFrom(iter.index + 1)
    /\ last' = [op |-> "update", entity |-> NULL_ENTITY, type |-> "none"]
    /\ UNCHANGED <<emVars, cmVars, sysVars, updateLog, aborted, live, engVars, appVars>>

NextTraverse ==
    \/ World_createEntity /\ IterFollows
    \/ \E e \in Entity : PoolAdmits(e, PoolSlack) /\ World_destroyEntity(e) /\ IterFollows
    \/ \E T \in ComponentType, e \in Entity, c \in Value :
           World_addComponent(T, e, c) /\ IterFollows
    \/ \E T \in ComponentType, e \in Entity : World_removeComponent(T, e) /\ IterFollows
    \/ World_updateSystems_begin
    \/ System_update_advance
    \/ System_update_return

SpecTraverse == InitScene /\ [][NextTraverse]_vars
(***************************************************************************)
(* SpecRegistry: component registration and every call that names a        *)
(* component type, on a World without systems.  The value attached plays   *)
(* no part in these calls: every component is attached with the value 1.   *)
(***************************************************************************)
NextRegistry ==
    \/ \E T \in ComponentType : World_registerComponent(T) /\ IterFollows
    \/ World_createEntity /\ IterFollows
    \/ \E T \in ComponentType, e \in Entity : World_addComponent(T, e, 1) /\ IterFollows
    \/ \E T \in ComponentType, e \in Entity : World_removeComponent(T, e) /\ IterFollows
    \/ \E T \in ComponentType, e \in Entity : World_getComponent(T, e) /\ IterFollows
    \/ \E T \in ComponentType, e \in Entity : World_hasComponent(T, e) /\ IterFollows
    \/ \E T \in ComponentType : ComponentManager_getBit_call(T) /\ IterFollows
    \/ \E T \in ComponentType : World_makeSignature_call(T) /\ IterFollows
    \/ \E e \in Entity : World_isAlive_call(e) /\ IterFollows

SpecRegistry == Init /\ [][NextRegistry]_vars
(***************************************************************************)
(* SpecQuery: the World with its three queries isAlive, hasComponent and   *)
(* getSystem among the calls that change it, from the point where both     *)
(* component types and the system "a" are registered; a second system may  *)
(* be registered under either name.  Every component is attached with the  *)
(* value 1: no query reads it.                                             *)
(***************************************************************************)
InitQuery ==
    /\ availableIds  = [i \in 1 .. MAX_ENTITIES |-> i]
    /\ signatures    = [e \in 0 .. MAX_ENTITIES |-> EmptySignature]
    /\ livingCount   = 0
    /\ typeToBit     = MapPut(MapPut(EmptyMap, "Position", 0), "Velocity", 1)
    /\ typeToArray   = MapPut(MapPut(EmptyMap, "Position", NewComponentArray),
                              "Velocity", NewComponentArray)
    /\ nextBit       = 2
    /\ \E g \in SceneSignatures : systemObjects = <<NewSystem("a", g)>>
    /\ systems       = MapPut(EmptyMap, "a", 1)
    /\ systemOrder   = <<"a">>
    /\ updateLog     = << >>
    /\ aborted       = FALSE
    /\ iter          = NoIter
    /\ EngineIdle
    /\ NoApplication
    /\ live          = {}
    /\ last          = [op |-> "registerSystem", entity |-> NULL_ENTITY, type |-> "a"]

NextQuery ==
    \/ \E n \in SystemName : World_registerSystem(n, {0, 1}) /\ IterFollows
    \/ World_createEntity /\ IterFollows
    \/ \E e \in Entity : PoolAdmits(e, PoolSlack) /\ World_destroyEntity(e) /\ IterFollows
    \/ \E T \in ComponentType, e \in Entity : World_addComponent(T, e, 1) /\ IterFollows
    \/ \E T \in ComponentType, e \in Entity : World_removeComponent(T, e) /\ IterFollows
    \/ \E e \in Entity : World_isAlive_call(e) /\ IterFollows
    \/ \E T \in ComponentType, e \in Entity : World_hasComponent(T, e) /\ IterFollows
    \/ \E n \in SystemName : World_getSystem_call(n) /\ IterFollows
    \/ \E Ts \in SUBSET ComponentType : World_makeSignature_pack(Ts) /\ IterFollows

SpecQuery == InitQuery /\ [][NextQuery]_vars

-----------------------------------------------------------------------------
\* World::destroyEntity statement by statement.  "last.op" names the statement
\* of the running call that was executed last; the program is single-threaded,
\* so no other call starts before the third statement has run.

DestroySteps == {"destroyEntity.systems", "destroyEntity.components"}

InDestroy == last.op \in DestroySteps

\* for ( auto& [typeIndex, system] : systems ) system->entities.erase ( entity );
World_destroyEntity_systems(entity) ==
    /\ ~aborted
    /\ ~InDestroy
    /\ systemObjects' = EraseFromSystems(systemObjects, entity)
    /\ last' = [op |-> "destroyEntity.systems", entity |-> entity, type |-> "none"]
    /\ UNCHANGED <<emVars, cmVars, systems, systemOrder, updateLog, aborted, live>>

\* componentManager.entityDestroyed ( entity );
World_destroyEntity_components ==
    /\ ~aborted
    /\ last.op = "destroyEntity.systems"
    /\ typeToArray' = ComponentManager_entityDestroyed(typeToArray, last.entity)
    /\ last' = [last EXCEPT !.op = "destroyEntity.components"]
    /\ UNCHANGED <<emVars, typeToBit, nextBit, sysVars, updateLog, aborted, live>>

\* entityManager.destroyEntity ( entity );
World_destroyEntity_recycle ==
    /\ ~aborted
    /\ last.op = "destroyEntity.components"
    /\ last' = [last EXCEPT !.op = "destroyEntity"]
    /\ IF ~InRange(last.entity)
       THEN /\ Abort
            /\ UNCHANGED <<emVars, live>>
       ELSE /\ signatures'   = [signatures EXCEPT ![last.entity] = EmptySignature]
            /\ availableIds' = Append(availableIds, last.entity)
            /\ livingCount'  = U32Dec(livingCount)
            /\ live'         = live \ {last.entity}
            /\ UNCHANGED aborted
    /\ UNCHANGED <<cmVars, sysVars, updateLog>>

NextDestroy ==
    \/ ~InDestroy /\ World_createEntity /\ IterFollows
    \/ \E T \in ComponentType, e \in Entity, c \in ArrayValue :
           ~InDestroy /\ World_addComponent(T, e, c) /\ IterFollows
    \/ \E e \in Entity :
           PoolAdmits(e, PoolSlack) /\ World_destroyEntity_systems(e) /\ IterFollows
    \/ World_destroyEntity_components /\ IterFollows
    \/ World_destroyEntity_recycle /\ IterFollows

SpecDestroy == InitScene /\ [][NextDestroy]_vars

-----------------------------------------------------------------------------
\* The World driven by a caller that passes destroyEntity only ids it got from
\* createEntity and has not destroyed since.

NextLive ==
    \/ World_createEntity /\ IterFollows
    \/ \E e \in live : World_destroyEntity(e) /\ IterFollows
    \/ \E T \in ComponentType, e \in Entity : World_addComponent(T, e, 1) /\ IterFollows
    \/ \E T \in ComponentType, e \in Entity : World_removeComponent(T, e) /\ IterFollows

SpecLive == InitScene /\ [][NextLive]_vars

-----------------------------------------------------------------------------
\* A World in which the program registers one component type more than a
\* Signature has bits.

BitTypes == ComponentType \cup {"Health"}

NextBits ==
    \/ \E T \in BitTypes : World_registerComponent(T) /\ IterFollows
    \/ World_createEntity /\ IterFollows
    \/ \E T \in BitTypes, e \in ValidEntity : World_addComponent(T, e, 1) /\ IterFollows
    \/ \E T \in BitTypes, e \in ValidEntity : World_removeComponent(T, e) /\ IterFollows
    \/ \E T \in BitTypes : World_makeSignature_call(T) /\ IterFollows

SpecBits == Init /\ [][NextBits]_vars

-----------------------------------------------------------------------------
\* The World driven by a caller that passes addComponent, removeComponent and
\* destroyEntity only ids it got from createEntity and has not destroyed since.

NextGuarded ==
    \/ World_createEntity /\ IterFollows
    \/ \E e \in live : World_destroyEntity(e) /\ IterFollows
    \/ \E T \in ComponentType : World_registerComponent(T) /\ IterFollows
    \/ \E T \in ComponentType, e \in live, c \in Value :
           World_addComponent(T, e, c) /\ IterFollows
    \/ \E T \in ComponentType, e \in live : World_removeComponent(T, e) /\ IterFollows
    \/ \E n \in RegisterableNames, s \in MakeableSignatures :
           World_registerSystem(n, s) /\ IterFollows

SpecGuarded == Init /\ [][NextGuarded]_vars

(***************************************************************************)
(* CommandManager and Engine.  A command is a std::function<void()>; the   *)
(* model follows three kinds of closure: "stop" calls Engine::stop, "post" *)
(* posts one further command, "work" does neither.  Each command carries   *)
(* the number of the post call that queued it, the frame it was posted in  *)
(* and the place in Engine::run it was posted from.                        *)
(***************************************************************************)
CommandKind == {"stop", "post", "work"}

\* The queued commands that will post one more command when they run.
PendingPosts == Cardinality({i \in 1 .. Len(commandQueue) : commandQueue[i].kind = "post"})

\* The bound on post calls leaves room for the command this one will post.
RoomFor(kind) ==
    posted + PendingPosts + (IF kind = "post" THEN 2 ELSE 1) <= MaxCommands

NewCommand(kind) == [id |-> posted + 1, kind |-> kind, frame |-> frame, at |-> pc]

\* post that pushes at the front of the queue.
CommandManager_post_front(queue, command) == <<command>> \o queue

\* commandQueue.push ( std::move ( command ) )
CommandManager_post(queue, command) == Append(queue, command)

\* running = false
Engine_stop == running' = FALSE

\* Code outside the commands (before run(), a system's update, swapBuffer)
\* posts a command.
Body_post(kind) ==
    /\ ~aborted
    /\ pc \in {"main", "update", "swap"}
    /\ RoomFor(kind)
    /\ commandQueue' = CommandManager_post(commandQueue, NewCommand(kind))
    /\ posted' = posted + 1
    /\ last' = [op |-> "post", entity |-> NULL_ENTITY, type |-> kind]
    /\ UNCHANGED <<emVars, cmVars, sysVars, updateLog, aborted, iter, live, appVars,
                   running, pc, frame, executed, inputThread, raced>>

\* A system's update or swapBuffer calls stop() itself.
Body_stop ==
    /\ ~aborted
    /\ pc \in {"update", "swap"}
    /\ Engine_stop
    /\ last' = [op |-> "stop", entity |-> NULL_ENTITY, type |-> pc]
    /\ UNCHANGED <<emVars, cmVars, sysVars, updateLog, aborted, iter, live, appVars,
                   commandQueue, pc, frame, posted, executed, inputThread, raced>>

\* run(): running = true, then the first test of the loop condition.
Engine_run ==
    /\ ~aborted
    /\ pc = "main"
    /\ running' = TRUE
    /\ pc' = "test"
    /\ last' = [op |-> "run", entity |-> NULL_ENTITY, type |-> "none"]
    /\ UNCHANGED <<emVars, cmVars, sysVars, updateLog, aborted, iter, live, appVars,
                   commandQueue, frame, posted, executed, inputThread, raced>>

\* A loop that also goes on while commands are queued:
\* while ( running || !commandManager.empty () )
Engine_run_test_drains ==
    /\ ~aborted
    /\ pc = "test"
    /\ IF running \/ commandQueue # << >>
       THEN /\ frame < MaxFrames
            /\ pc' = "flush"
            /\ frame' = frame + 1
       ELSE /\ pc' = "returned"
            /\ UNCHANGED frame
    /\ last' = [op |-> "while", entity |-> NULL_ENTITY, type |-> "none"]
    /\ UNCHANGED <<emVars, cmVars, sysVars, updateLog, aborted, iter, live, appVars,
                   commandQueue, running, posted, executed, inputThread, raced>>

\* A loop whose body starts with world.updateSystems.
Engine_run_test_updateFirst ==
    /\ ~aborted
    /\ pc = "test"
    /\ IF running
       THEN /\ frame < MaxFrames
            /\ pc' = "update"
            /\ frame' = frame + 1
       ELSE /\ pc' = "returned"
            /\ UNCHANGED frame
    /\ last' = [op |-> "while", entity |-> NULL_ENTITY, type |-> "none"]
    /\ UNCHANGED <<emVars, cmVars, sysVars, updateLog, aborted, iter, live, appVars,
                   commandQueue, running, posted, executed, inputThread, raced>>

\* while ( running )
Engine_run_test ==
    /\ ~aborted
    /\ pc = "test"
    /\ IF running
       THEN /\ frame < MaxFrames
            /\ pc' = "flush"
            /\ frame' = frame + 1
       ELSE /\ pc' = "returned"
            /\ UNCHANGED frame
    /\ last' = [op |-> "while", entity |-> NULL_ENTITY, type |-> "none"]
    /\ UNCHANGED <<emVars, cmVars, sysVars, updateLog, aborted, iter, live, appVars,
                   commandQueue, running, posted, executed, inputThread, raced>>

\* flush that runs the commands it finds queued when it is called and leaves
\* those posted meanwhile for the next flush.
CommandManager_flush_return_early ==
    /\ ~aborted
    /\ pc = "flush"
    /\ \A i \in 1 .. Len(commandQueue) : commandQueue[i].at = "flush"
    /\ pc' = "update"
    /\ last' = [op |-> "flush", entity |-> NULL_ENTITY, type |-> "none"]
    /\ UNCHANGED <<emVars, cmVars, sysVars, updateLog, aborted, iter, live, appVars,
                   commandQueue, running, frame, posted, executed, inputThread, raced>>

\* flush, loop test false: the queue is empty and flush returns.
CommandManager_flush_return ==
    /\ ~aborted
    /\ pc = "flush"
    /\ commandQueue = << >>
    /\ pc' = "update"
    /\ last' = [op |-> "flush", entity |-> NULL_ENTITY, type |-> "none"]
    /\ UNCHANGED <<emVars, cmVars, sysVars, updateLog, aborted, iter, live, appVars,
                   commandQueue, running, frame, posted, executed, inputThread, raced>>

\* flush, one turn of its loop: front() is moved out, popped and invoked.
CommandManager_flush_next ==
    /\ ~aborted
    /\ pc = "flush"
    /\ commandQueue # << >>
    /\ LET cmd == Head(commandQueue)
       IN  /\ executed' = Append(executed, [id |-> cmd.id, kind |-> cmd.kind,
                                            frame |-> cmd.frame, at |-> cmd.at,
                                            ranIn |-> frame, ranAt |-> pc])
           /\ IF cmd.kind = "stop" THEN Engine_stop ELSE UNCHANGED running
           /\ IF cmd.kind = "post"
              THEN \E kind \in {"work", "stop"} :
                      /\ commandQueue' =
                            CommandManager_post(Tail(commandQueue), NewCommand(kind))
                      /\ posted' = posted + 1
              ELSE /\ commandQueue' = Tail(commandQueue)
                   /\ UNCHANGED posted
           /\ last' = [op |-> "command", entity |-> NULL_ENTITY, type |-> cmd.kind]
    /\ UNCHANGED <<emVars, cmVars, sysVars, updateLog, aborted, iter, live, appVars,
                   pc, frame, inputThread, raced>>

\* world.updateSystems ( dt ) returns.
Engine_run_updateSystems ==
    /\ pc = "update"
    /\ World_updateSystems
    /\ pc' = "swap"
    /\ UNCHANGED <<iter, commandQueue, running, frame, posted, executed, inputThread, raced,
                   appVars>>

\* swapBuffer () and regulateFrameRate return; the iteration is complete.
Engine_run_swapBuffer ==
    /\ ~aborted
    /\ pc = "swap"
    /\ pc' = "test"
    /\ last' = [op |-> "swapBuffer", entity |-> NULL_ENTITY, type |-> "none"]
    /\ UNCHANGED <<emVars, cmVars, sysVars, updateLog, aborted, iter, live, appVars,
                   commandQueue, running, frame, posted, executed, inputThread, raced>>

NextEngine ==
    \/ \E kind \in CommandKind : Body_post(kind)
    \/ Body_stop
    \/ Engine_run
    \/ Engine_run_test
    \/ CommandManager_flush_next
    \/ CommandManager_flush_return
    \/ Engine_run_updateSystems
    \/ Engine_run_swapBuffer

SpecEngine == Init /\ [][NextEngine]_vars

\* The statements of run() and flush() the main thread executes next: the
\* thread keeps running, and a system's update and swapBuffer return.
MainThread ==
    \/ Engine_run_test
    \/ CommandManager_flush_next
    \/ CommandManager_flush_return
    \/ Engine_run_updateSystems
    \/ Engine_run_swapBuffer

SpecEngineFair == SpecEngine /\ WF_vars(MainThread)

(***************************************************************************)
(* hello_world: main() sets the World up, starts a detached thread that    *)
(* waits for a key and then posts a stop command, and calls engine.run().  *)
(* CommandManager holds a plain std::queue and no lock: a push by the      *)
(* input thread while the main thread is inside flush is a data race on    *)
(* the queue.  The model follows the outcomes of the race in which the     *)
(* main thread misses or sees the element being pushed, the push is lost   *)
(* or kept, or the program crashes.                                        *)
(***************************************************************************)
\* main() up to the construction of the thread: the two component types, the
\* terminal system over both, and the message entity holding both.
InitHello ==
    /\ availableIds  = [i \in 1 .. (MAX_ENTITIES - 1) |-> i + 1]
    /\ signatures    = [e \in 0 .. MAX_ENTITIES |-> IF e = 1 THEN {0, 1} ELSE EmptySignature]
    /\ livingCount   = 1
    /\ typeToBit     = MapPut(MapPut(EmptyMap, "Position", 0), "Velocity", 1)
    /\ typeToArray   =
          MapPut(MapPut(EmptyMap, "Position", ComponentArray_insert(NewComponentArray, 1, 1)),
                 "Velocity", ComponentArray_insert(NewComponentArray, 1, 1))
    /\ nextBit       = 2
    /\ systemObjects = <<[NewSystem("a", {0, 1}) EXCEPT !.entities = {1}]>>
    /\ systems       = MapPut(EmptyMap, "a", 1)
    /\ systemOrder   = <<"a">>
    /\ updateLog     = << >>
    /\ aborted       = FALSE
    /\ iter          = NoIter
    /\ EngineIdle
    /\ NoApplication
    /\ live          = {1}
    /\ last          = [op |-> "addComponent", entity |-> 1, type |-> "Velocity"]

WorldFrame == UNCHANGED <<emVars, cmVars, sysVars, updateLog, iter, live, appVars>>

\* std::thread inputThread ( ... ); inputThread.detach ();
Main_startInputThread ==
    /\ ~aborted
    /\ pc = "main"
    /\ inputThread = "none"
    /\ inputThread' = "getch"
    /\ last' = [op |-> "thread", entity |-> NULL_ENTITY, type |-> "none"]
    /\ WorldFrame
    /\ UNCHANGED <<aborted, commandQueue, running, pc, frame, posted, executed, raced>>

\* _getch () returns: the thread calls post and is inside commandQueue.push.
Input_getch ==
    /\ ~aborted
    /\ inputThread = "getch"
    /\ inputThread' = "push"
    /\ last' = [op |-> "getch", entity |-> NULL_ENTITY, type |-> "none"]
    /\ WorldFrame
    /\ UNCHANGED <<aborted, commandQueue, running, pc, frame, posted, executed, raced>>

\* commandQueue.push returns.  After a race the element may be missing.
Input_post ==
    /\ ~aborted
    /\ inputThread = "push"
    /\ inputThread' = "done"
    /\ posted' = posted + 1
    /\ \/ commandQueue' = CommandManager_post(commandQueue, NewCommand("stop"))
       \/ /\ raced
          /\ UNCHANGED commandQueue
    /\ last' = [op |-> "post", entity |-> NULL_ENTITY, type |-> "stop"]
    /\ WorldFrame
    /\ UNCHANGED <<aborted, running, pc, frame, executed, raced>>

\* The main thread evaluates commandQueue.empty () / front () / pop () in
\* flush while the input thread is inside push: it finds the queue empty and
\* flush returns, or it finds the element and runs the stop command, or the
\* program crashes.
Main_flush_duringPush ==
    /\ ~aborted
    /\ pc = "flush"
    /\ inputThread = "push"
    /\ raced' = TRUE
    /\ last' = [op |-> "flush", entity |-> NULL_ENTITY, type |-> "race"]
    /\ \/ /\ pc' = "update"
          /\ UNCHANGED <<aborted, running, executed>>
       \/ /\ Len(executed) < MaxCommands
          /\ executed' = Append(executed, [id |-> posted + 1, kind |-> "stop",
                                            frame |-> frame, at |-> pc,
                                            ranIn |-> frame, ranAt |-> pc])
          /\ Engine_stop
          /\ UNCHANGED <<aborted, pc>>
       \/ /\ Abort
          /\ UNCHANGED <<running, executed, pc>>
    /\ WorldFrame
    /\ UNCHANGED <<commandQueue, frame, posted, inputThread>>

NextHello ==
    \/ Main_startInputThread
    \/ Input_getch
    \/ Input_post
    \/ Main_flush_duringPush
    \/ inputThread # "none" /\ Engine_run
    \/ Engine_run_test
    \/ inputThread # "push" /\ CommandManager_flush_next
    \/ inputThread # "push" /\ CommandManager_flush_return
    \/ Engine_run_updateSystems
    \/ Engine_run_swapBuffer

SpecHello == InitHello /\ [][NextHello]_vars

(***************************************************************************)
(* Application (particle_demo).  An engine's run() is followed only as far *)
(* as Application sees it: the engine puts the next application state in   *)
(* the global cache and returns.                                           *)
(***************************************************************************)
MenuStates ==
    {STATE_MENU_MAIN, STATE_MENU_SETTINGS, STATE_MENU_INSTRUCTIONS, STATE_MENU_ABOUT}

AppFrame ==
    UNCHANGED <<emVars, cmVars, sysVars, updateLog, aborted, iter, live, last, engVars>>

\* Application::Application (): initializeSettings, initializeGlobalCache,
\* initializeGraphicsWindow; window.create succeeds or fails.
Application_Application(created) ==
    /\ appPc = "new"
    /\ cacheState' = STATE_STARTING
    /\ window' = IF created THEN "created" ELSE "failed"
    /\ applicationState' = IF created THEN applicationState ELSE STATE_IDLE
    /\ appPc' = "constructed"
    /\ UNCHANGED engines
    /\ AppFrame

\* Application::run (), up to the first test of the loop condition.
Application_run ==
    /\ appPc = "constructed"
    /\ applicationState' = STATE_STARTING
    /\ appPc' = "loop"
    /\ UNCHANGED <<cacheState, window, engines>>
    /\ AppFrame

\* while ( applicationState != STATE_IDLE ) switch ( applicationState ): up
\* to the break, or to the call of the engine's run ().
Application_run_switch ==
    /\ appPc = "loop"
    /\ IF applicationState = STATE_IDLE
       THEN /\ appPc' = "returned"
            /\ UNCHANGED <<applicationState, engines>>
       ELSE IF applicationState = STATE_STARTING
       THEN /\ applicationState' = STATE_MENU_MAIN
            /\ UNCHANGED <<appPc, engines>>
       ELSE IF applicationState \in MenuStates
       THEN /\ Len(engines) < MaxEngines
            /\ engines' = Append(engines, "EngineMenu")
            /\ appPc' = "engine"
            /\ UNCHANGED applicationState
       ELSE IF applicationState = STATE_LEVEL_PARTICLE_SIMULATION
       THEN /\ Len(engines) < MaxEngines
            /\ engines' = Append(engines, "EngineParticleSimulator")
            /\ appPc' = "engine"
            /\ UNCHANGED applicationState
       ELSE \* STATE_STOPPING and default
            /\ applicationState' = STATE_IDLE
            /\ UNCHANGED <<appPc, engines>>
    /\ UNCHANGED <<cacheState, window>>
    /\ AppFrame

\* The running engine puts the next application state in the global cache:
\* the menu starts the simulation or exits, the simulation goes back to the
\* menu or exits.
Engine_putsApplicationState(state) ==
    /\ appPc = "engine"
    /\ state \in (IF engines[Len(engines)] = "EngineMenu"
                  THEN {STATE_LEVEL_PARTICLE_SIMULATION, STATE_STOPPING}
                  ELSE {STATE_MENU_MAIN, STATE_STOPPING})
    /\ cacheState' = state
    /\ appPc' = "stopping"
    /\ UNCHANGED <<applicationState, window, engines>>
    /\ AppFrame

\* The engine's run () returns:
\* applicationState = globalCache.get <int> ( "applicationState" ); break;
Application_run_engineReturns ==
    /\ appPc = "stopping"
    /\ applicationState' = cacheState
    /\ appPc' = "loop"
    /\ UNCHANGED <<cacheState, window, engines>>
    /\ AppFrame

ApplicationStates ==
    {STATE_IDLE, STATE_STARTING, STATE_STOPPING, STATE_LEVEL_PARTICLE_SIMULATION}
        \cup MenuStates

NextApplication ==
    \/ \E created \in BOOLEAN : Application_Application(created)
    \/ Application_run
    \/ Application_run_switch
    \/ \E state \in ApplicationStates : Engine_putsApplicationState(state)
    \/ Application_run_engineReturns

SpecApplication == Init /\ [][NextApplication]_vars

(***************************************************************************)
(* Properties.                                                             *)
(***************************************************************************)

\* A step of the program (not a stuttering step) that is the call `op`.
Called(op) == last'.op = op /\ vars' # vars

\* C1: createEntity never returns an id that is still live, whatever in-range
\* ids destroyEntity was given before.
C1_NoLiveIdIssuedAgain ==
    [][(Called("createEntity") /\ ~aborted') => last'.entity \notin live]_vars

\* C9: createEntity ends in the exhaustion assert exactly when the number of
\* live entities equals MAX_ENTITIES.
C9_ExhaustedExactlyAtMax ==
    [][Called("createEntity") => (aborted' <=> Cardinality(live) = MAX_ENTITIES)]_vars

\* C10: getLivingCount() is the number of ids created and not yet destroyed;
\* the uint32_t neither wraps below 0 nor exceeds MAX_ENTITIES.
C10_LivingCountCountsLive ==
    /\ livingCount = Cardinality(live)
    /\ livingCount >= 0
    /\ livingCount <= MAX_ENTITIES

\* The calls that change an entity's components.
MutatingCalls == {"addComponent", "removeComponent", "destroyEntity"}

DenseArrayInvariant(a) ==
    /\ Len(a.components) = Len(a.indexToEntity)
    /\ Len(a.components) = Cardinality(DOMAIN a.entityToIndex)
    /\ \A e \in DOMAIN a.entityToIndex :
           /\ a.entityToIndex[e] >= 0
           /\ a.entityToIndex[e] < ComponentArray_size(a)
           /\ a.indexToEntity[a.entityToIndex[e] + 1] = e
    /\ \A i \in 0 .. (ComponentArray_size(a) - 1) :
           /\ a.indexToEntity[i + 1] \in DOMAIN a.entityToIndex
           /\ a.entityToIndex[a.indexToEntity[i + 1]] = i

\* C3: after any sequence of insert, remove and entityDestroyed the three
\* containers of a ComponentArray have the same length, every stored index is
\* below size(), and the two mappings are mutual inverses.
C3_DenseArrayInvariant ==
    \A T \in DOMAIN typeToArray : DenseArrayInvariant(typeToArray[T])

\* A remove has returned and left at least two entities in the array.
C3_Witness ==
    /\ last.op = "remove"
    /\ ~aborted
    /\ ComponentArray_size(typeToArray[ArrayType]) >= 2

\* C4: the k-th registered type gets bit k-1, no two types share a bit, and
\* getBit returns a type's bit unchanged after every later call.
C4_BitsSequentialAndStable ==
    [][ /\ \A T \in DOMAIN typeToBit :
               /\ T \in DOMAIN typeToBit'
               /\ ComponentManager_getBit(T)' = ComponentManager_getBit(T)
        /\ \A T \in (DOMAIN typeToBit') \ (DOMAIN typeToBit) :
               ComponentManager_getBit(T)' = Cardinality(DOMAIN typeToBit)
        /\ \A T1, T2 \in DOMAIN typeToBit' :
               (T1 # T2) => (ComponentManager_getBit(T1)' # ComponentManager_getBit(T2)')
      ]_vars

\* Both types are registered and a component has since been removed.
C4_Witness ==
    /\ DOMAIN typeToBit = ComponentType
    /\ last.op = "removeComponent"
    /\ ~aborted

C6_CreatedEntityStartsClean ==
    (last.op = "createEntity" /\ ~aborted) =>
        /\ last.entity \in ValidEntity
        /\ signatures[last.entity] = EmptySignature
        /\ \A T \in DOMAIN typeToArray : ~ComponentArray_has(typeToArray[T], last.entity)
        /\ \A h \in DOMAIN systemObjects : last.entity \notin systemObjects[h].entities

\* C7: after destroyEntity(e) returns, e holds no component, is in no system's
\* entity set, has an empty signature and is not alive.
C7_DestroyedEntityIsGone ==
    (last.op = "destroyEntity" /\ ~aborted) =>
        /\ \A T \in DOMAIN typeToArray : ~ComponentArray_has(typeToArray[T], last.entity)
        /\ \A h \in DOMAIN systemObjects : last.entity \notin systemObjects[h].entities
        /\ signatures[last.entity] = EmptySignature
        /\ ~World_isAlive(last.entity)

\* The enabled systems among handles i.., in the order they were registered.
RECURSIVE EnabledInRegistrationOrder(_)
EnabledInRegistrationOrder(i) ==
    IF i > Len(systemObjects)
    THEN << >>
    ELSE (IF systemObjects[i].enabled THEN <<i>> ELSE << >>)
             \o EnabledInRegistrationOrder(i + 1)

\* C8: one updateSystems call invokes update once on each enabled registered
\* system, on no disabled one, in registration order.
C8_EachEnabledSystemOnceInOrder ==
    (last.op = "updateSystems") => (updateLog = EnabledInRegistrationOrder(1))

\* C11: createEntity returns only ids of 1..MAX_ENTITIES (never the null id, never
\* an id above MAX_ENTITIES), the pool holds only such ids, and a createEntity
\* that passes the exhaustion assert finds the pool non-empty.
C11_IssuedIdsInRange ==
    [][ /\ \A i \in 1 .. Len(availableIds') : availableIds'[i] \in ValidEntity
        /\ (Called("createEntity") /\ ~aborted') =>
               /\ last'.entity \in ValidEntity
               /\ availableIds # << >>
      ]_vars

\* A createEntity has returned a recycled id and emptied the pool.
C11_Witness ==
    /\ last.op = "createEntity"
    /\ ~aborted
    /\ availableIds = << >>
    /\ last.entity = 1
    /\ livingCount = MAX_ENTITIES

\* C12: ids leave the pool at its head and enter at its tail, starting from
\* 1, 2, ..., MAX_ENTITIES; so the id at position p of the pool is the one the
\* p-th further createEntity returns: a createEntity that finds an id in the
\* pool returns the head and does not end in the exhaustion assert.
C12_FifoAndEveryPooledIdIssued ==
    [][ /\ Called("createEntity") =>
               IF availableIds # << >>
               THEN /\ ~aborted'
                    /\ last'.entity = Head(availableIds)
                    /\ availableIds' = Tail(availableIds)
               ELSE aborted'
        /\ (Called("destroyEntity") /\ ~aborted') =>
               availableIds' = Append(availableIds, last'.entity)
      ]_vars

\* e holds every component type whose bit is in R.
HoldsAll(e, R) ==
    \A T \in DOMAIN typeToBit :
        (ComponentManager_getBit(T) \in R) => ComponentArray_has(typeToArray[T], e)

\* C13: for a system registered under a name of its own, with a non-empty
\* required set R, before any component was attached: in every state, and so
\* after every addComponent, removeComponent and destroyEntity, a live entity
\* is in the system's entity set iff it holds every component type of R.
C13_LiveEntityInSetIffHoldsAll ==
    \A h \in DOMAIN systemObjects : \A e \in live :
        (e \in systemObjects[h].entities) <=> HoldsAll(e, systemObjects[h].signature)

\* The scenario's last step: e held Position and Velocity, Position has been
\* removed, and e has left the system requiring both while the other live
\* entity stays in it.
C13_Witness ==
    /\ last.op = "removeComponent"
    /\ last.type = "Position"
    /\ ~aborted
    /\ last.entity \in live
    /\ ComponentArray_has(typeToArray["Velocity"], last.entity)
    /\ \E h \in DOMAIN systemObjects : \E e \in live :
           /\ systemObjects[h].signature = {0, 1}
           /\ last.entity \notin systemObjects[h].entities
           /\ e \in systemObjects[h].entities

\* The step erases the traversal's current element from the traversed set.
ErasesCurrent ==
    /\ AtElement
    /\ ~iter.dangling
    /\ iter.entity \in systemObjects[iter.handle].entities
    /\ iter.entity \notin systemObjects'[iter.handle].entities

\* C14, as claimed: no addComponent, removeComponent or destroyEntity made
\* while an update traverses an entity set erases the element the traversal
\* is at.
C14_CurrentElementNeverErased ==
    [][(last'.op \in MutatingCalls) => ~ErasesCurrent]_vars

\* C14, amended: the only calls that erase the element the traversal is at
\* are removeComponent and destroyEntity on that very entity; addComponent on
\* any entity, and any call on another entity, leave the iterator as it was.
C14_OnlyCallOnCurrentErasesIt ==
    [][ /\ ErasesCurrent =>
               /\ last'.op \in {"removeComponent", "destroyEntity"}
               /\ last'.entity = iter.entity
        /\ (/\ AtElement
            /\ Called("addComponent") \/ Called("removeComponent")
                   \/ Called("destroyEntity") \/ Called("createEntity")
            /\ last'.op = "addComponent" \/ last'.entity # iter.entity) =>
               iter' = iter
      ]_vars

\* In the body of the traversal of the system requiring both types, at an
\* element still in the set, a removeComponent has just taken another entity
\* out of that set.
C14_Witness ==
    /\ AtElement
    /\ ~iter.dangling
    /\ ~aborted
    /\ systemObjects[iter.handle].signature = {0, 1}
    /\ iter.entity \in systemObjects[iter.handle].entities
    /\ last.op = "removeComponent"
    /\ last.type = "Position"
    /\ last.entity # iter.entity
    /\ last.entity \notin systemObjects[iter.handle].entities
    /\ ComponentArray_has(typeToArray["Velocity"], last.entity)

\* The stores, the signatures, the entity sets, the pool and the live count.
WorldData == <<typeToArray, signatures, systemObjects, availableIds, livingCount>>

\* C15: addComponent, removeComponent and destroyEntity given an id outside
\* 1..MAX_ENTITIES end in the failed assert with every store, signature,
\* entity set, the pool and the live count as they were before the call.
C15_OutOfRangeFailsWithStateIntact ==
    [][ (/\ Called("addComponent") \/ Called("removeComponent") \/ Called("destroyEntity")
         /\ ~InRange(last'.entity)) =>
            /\ aborted'
            /\ WorldData' = WorldData
      ]_vars

\* The store of T holds a component for e.
Holds(T, e) == e \in DOMAIN typeToArray[T].entityToIndex

\* C16: addComponent<T>(e, v) when e holds a T, and removeComponent<T>(e) or
\* getComponent<T>(e) when e holds none, end in the failed assert with the
\* stores (so the stored value too), the signatures and every system's entity
\* set as they were.
C16_DuplicateAndMissingFail ==
    [][ \A T \in DOMAIN typeToArray :
          (/\ last'.type = T
           /\ \/ Called("addComponent") /\ Holds(T, last'.entity)
              \/ (Called("removeComponent") \/ Called("getComponent"))
                     /\ ~Holds(T, last'.entity)) =>
              /\ aborted'
              /\ typeToArray' = typeToArray
              /\ signatures' = signatures
              /\ systemObjects' = systemObjects
      ]_vars

\* A second addComponent<Position> to an entity in both systems has failed;
\* the store still holds the value 1 for it.
C16_Witness ==
    /\ aborted
    /\ last.op = "addComponent"
    /\ last.type = "Position"
    /\ InRange(last.entity)
    /\ Holds("Position", last.entity)
    /\ ComponentArray_get(typeToArray["Position"], last.entity) = 1
    /\ \A h \in DOMAIN systemObjects : last.entity \in systemObjects[h].entities

\* The calls that look a component type up.
TypeLookups ==
    {"getBit", "makeSignature", "addComponent", "removeComponent",
     "getComponent", "hasComponent"}

\* C17: registerComponent<T> for a registered T ends in the failed assert with
\* T's bit and the next free bit as they were; getBit, makeSignature,
\* addComponent, removeComponent, getComponent and hasComponent for a type that
\* was never registered end in the failed assert.
C17_RegistrationErrors ==
    [][ /\ (Called("registerComponent") /\ last'.type \in DOMAIN typeToBit) =>
               /\ aborted'
               /\ typeToBit' = typeToBit
               /\ nextBit' = nextBit
               /\ typeToArray' = typeToArray
        /\ (/\ last'.op \in TypeLookups
            /\ vars' # vars
            /\ last'.type \notin DOMAIN typeToBit) =>
               /\ aborted'
               /\ UNCHANGED <<typeToBit, nextBit, typeToArray, signatures>>
      ]_vars

\* Registering Position a second time has failed, after Velocity was
\* registered and a Position attached: Position keeps bit 0 and its store.
C17_Witness ==
    /\ aborted
    /\ last.op = "registerComponent"
    /\ last.type = "Position"
    /\ typeToBit = MapPut(MapPut(EmptyMap, "Position", 0), "Velocity", 1)
    /\ nextBit = 2
    /\ ComponentArray_size(typeToArray["Position"]) = 1

\* C18: addComponent<T>(e, v) on a live e that holds no T, followed by
\* removeComponent<T>(e): the add sets exactly T's bit, which was clear, and
\* the remove that follows it returns with hasComponent<T>(e) false and exactly
\* that bit cleared, so e's signature is the one before the add.
C18_AddThenRemoveRestores ==
    [][ \A T \in DOMAIN typeToArray : \A e \in live :
          /\ (/\ Called("addComponent")
              /\ last'.type = T /\ last'.entity = e
              /\ ~Holds(T, e)) =>
                 /\ ~aborted'
                 /\ ComponentManager_getBit(T) \notin signatures[e]
                 /\ signatures'[e] = signatures[e] \cup {ComponentManager_getBit(T)}
          /\ (/\ last.op = "addComponent" /\ last.type = T /\ last.entity = e
              /\ ~aborted
              /\ Called("removeComponent")
              /\ last'.type = T /\ last'.entity = e) =>
                 /\ ~aborted'
                 /\ ~ComponentManager_hasComponent(T, e)'
                 /\ ComponentManager_getBit(T) \notin signatures'[e]
                 /\ signatures'[e] = signatures[e] \ {ComponentManager_getBit(T)}
      ]_vars

\* A removeComponent<Position> has returned for a live entity that keeps its
\* Velocity: the signature is back to Velocity's bit alone.
C18_Witness ==
    /\ last.op = "removeComponent"
    /\ last.type = "Position"
    /\ ~aborted
    /\ last.entity \in live
    /\ ~Holds("Position", last.entity)
    /\ Holds("Velocity", last.entity)
    /\ signatures[last.entity] = {1}

\* C19: isAlive(e) returns (no assert fails); it is false for e = 0 and for
\* e > MAX_ENTITIES, and for e in 1..MAX_ENTITIES true exactly when e's stored
\* signature has a bit set: a live entity that holds no component is reported
\* not alive.
C19_IsAliveIffSignatureNonEmpty ==
    [][ /\ Called("isAlive") => ~aborted'
        /\ ~World_isAlive(NULL_ENTITY)'
        /\ \A e \in Entity :
               /\ (e > MAX_ENTITIES) => ~World_isAlive(e)'
               /\ (e >= 1 /\ e <= MAX_ENTITIES) =>
                      (World_isAlive(e)' <=> (signatures'[e] # EmptySignature))
        /\ \A e \in live' :
               (\A T \in DOMAIN typeToArray' : e \notin DOMAIN typeToArray'[T].entityToIndex)
                   => ~World_isAlive(e)'
      ]_vars

\* isAlive has been asked about a live entity whose last component was
\* removed, while the entity MAX_ENTITIES holds a component and is alive.
C19_Witness ==
    /\ last.op = "isAlive"
    /\ ~aborted
    /\ last.entity \in live
    /\ ~World_isAlive(last.entity)
    /\ \E T \in DOMAIN typeToArray : ComponentArray_size(typeToArray[T]) = 1
    /\ World_isAlive(MAX_ENTITIES)

\* C20: registerSystem adds a system with an empty entity set and leaves the
\* signatures, the stores, the id pool and every other system as they were;
\* and an entity enters a system's set only in an addComponent or
\* removeComponent on that entity, so one that already matched stays out
\* until then.
C20_RegisterSystemNotRetroactive ==
    [][ /\ Called("registerSystem") =>
               /\ ~aborted'
               /\ Len(systemObjects') = Len(systemObjects) + 1
               /\ systemObjects'[Len(systemObjects')].entities = {}
               /\ \A h \in DOMAIN systemObjects : systemObjects'[h] = systemObjects[h]
               /\ UNCHANGED <<signatures, typeToArray, typeToBit, nextBit,
                              availableIds, livingCount>>
        /\ \A h \in DOMAIN systemObjects' : \A e \in Entity :
               (/\ e \in systemObjects'[h].entities
                /\ (h \in DOMAIN systemObjects) => (e \notin systemObjects[h].entities)) =>
                   /\ last'.op \in {"addComponent", "removeComponent"}
                   /\ last'.entity = e
      ]_vars

\* A second system has just been registered while a live entity that the
\* first system holds matches its non-empty signature: its set is empty.
C20_Witness ==
    /\ last.op = "registerSystem"
    /\ ~aborted
    /\ Len(systemObjects) = 2
    /\ systemObjects[2].signature # EmptySignature
    /\ systemObjects[2].entities = {}
    /\ \E e \in live :
           /\ Matches(signatures[e], systemObjects[2].signature)
           /\ e \in systemObjects[1].entities

\* The three queries of the World.
QueryCalls == {"isAlive", "hasComponent", "getSystem"}

\* C21: a call of isAlive, hasComponent or getSystem returns and changes no
\* World state, and what each of the three would return for any argument is
\* the same after the call as before it.
C21_QueriesArePure ==
    [][ (last'.op \in QueryCalls /\ vars' # vars) =>
            /\ ~aborted'
            /\ UNCHANGED <<signatures, typeToArray, systemObjects, availableIds,
                           livingCount, systems, systemOrder, typeToBit, nextBit>>
            /\ \A e \in Entity : World_isAlive(e)' = World_isAlive(e)
            /\ \A T \in DOMAIN typeToArray : \A e \in Entity :
                   ComponentManager_hasComponent(T, e)' = ComponentManager_hasComponent(T, e)
            /\ \A n \in SystemName : World_getSystem(n)' = World_getSystem(n)
      ]_vars

\* getSystem has been asked for a name no system is registered under, in a
\* World with an alive entity that the system "a" holds.
C21_Witness ==
    /\ last.op = "getSystem"
    /\ last.type = "b"
    /\ ~aborted
    /\ World_getSystem("b") = NullHandle
    /\ \E e \in live : World_isAlive(e) /\ e \in systemObjects[World_getSystem("a")].entities

\* The systems registerSystem has constructed under the name n.
RegisteredUnder(n) == {h \in DOMAIN systemObjects : systemObjects[h].name = n}

\* C22: getSystem(name) returns, with the null handle when no system was
\* registered under name and else the system (last) registered under it;
\* hasComponent<T>(e) for a registered T returns for every id, with false for
\* an id that holds no T: ids outside 1..MAX_ENTITIES, and ids in range whose
\* signature lacks T's bit (never created, destroyed, or never given a T).
C22_EmptyQueriesReturnSentinel ==
    [][ /\ (last'.op \in {"getSystem", "hasComponent"} /\ vars' # vars) => ~aborted'
        /\ ~aborted' =>
             /\ \A n \in SystemName :
                    IF RegisteredUnder(n)' = {}
                    THEN World_getSystem(n)' = NullHandle
                    ELSE /\ World_getSystem(n)' \in RegisteredUnder(n)'
                         /\ \A h \in RegisteredUnder(n)' : h <= World_getSystem(n)'
             /\ \A T \in ComponentType : \A e \in Entity :
                    (T \in DOMAIN typeToArray') =>
                        /\ ComponentManager_hasComponent(T, e)' <=>
                               (InRange(e) /\ ComponentManager_getBit(T)' \in signatures'[e])
                        /\ (last'.op = "destroyEntity" /\ last'.entity = e) =>
                               ~ComponentManager_hasComponent(T, e)'
      ]_vars

\* hasComponent has been asked about an id above MAX_ENTITIES and returned,
\* in a World where "a" was registered twice and "b" never.
C22_Witness ==
    /\ last.op = "hasComponent"
    /\ last.entity > MAX_ENTITIES
    /\ ~aborted
    /\ World_getSystem("a") = 2
    /\ World_getSystem("b") = NullHandle
    /\ \E T \in DOMAIN typeToArray : ComponentArray_size(typeToArray[T]) > 0


StillPresent(e) ==
    \/ \E h \in MappedHandles : e \in systemObjects[h].entities
    \/ \E T \in DOMAIN typeToArray : ComponentArray_has(typeToArray[T], e)

Pooled(e) == \E i \in 1 .. Len(availableIds) : availableIds[i] = e

\* C24: destroyEntity(e) erases e from every system's entity set, removes e's
\* components from every store, and only then resets e's signature and returns
\* e to the recycling pool; in no intermediate state of the call is e in the
\* available pool while it is still in a system's entity set or a component
\* store.
C24_NotPooledWhilePresent ==
    InDestroy => ~(Pooled(last.entity) /\ StillPresent(last.entity))

\* The order of the statements alone: the pool and the signatures change only
\* in the last statement, which starts with e in no set and no store.
C24_RecycleComesLast ==
    [][ /\ (InDestroy' => UNCHANGED <<availableIds, signatures, livingCount>>)
        /\ (last.op = "destroyEntity.components" /\ last'.op = "destroyEntity")
              => ~StillPresent(last.entity) ]_vars


\* C25: remove(e) on a ComponentArray of size n with e at dense index i leaves
\* size n-1 and e absent; if i # n-1 the entity that was at index n-1 is at
\* index i with its value and both maps point to index i for it; every other
\* entity keeps its index and its value; if i = n-1 no element is relocated.
C25_RemoveSwapsLastIntoGap ==
    [][ (Called("remove") /\ ~aborted')
          => LET a == typeToArray[ArrayType]
                 b == typeToArray'[ArrayType]
                 e == last'.entity
                 n == ComponentArray_size(a)
                 i == a.entityToIndex[e]
                 lastEntity == a.indexToEntity[n]
                 relocated  == IF i # n - 1 THEN {lastEntity} ELSE {}
             IN  /\ ComponentArray_size(b) = n - 1
                 /\ Len(b.indexToEntity) = n - 1
                 /\ ~ComponentArray_has(b, e)
                 /\ \A x \in relocated :
                        /\ b.entityToIndex[x] = i
                        /\ b.indexToEntity[i + 1] = x
                        /\ b.components[i + 1] = a.components[n]
                 /\ \A x \in (DOMAIN a.entityToIndex) \ ({e} \cup relocated) :
                        /\ ComponentArray_has(b, x)
                        /\ b.entityToIndex[x] = a.entityToIndex[x]
                        /\ b.indexToEntity[b.entityToIndex[x] + 1] = x
                        /\ b.components[b.entityToIndex[x] + 1]
                              = a.components[a.entityToIndex[x] + 1]
                 /\ DOMAIN b.entityToIndex = (DOMAIN a.entityToIndex) \ {e} ]_vars

\* A remove from the middle has relocated the last entity: three entities were
\* stored with different values, the one at index 0 was removed, and the one
\* that was last is now at index 0 in front of the one that stayed at index 1.
C25_Witness ==
    /\ last.op = "remove"
    /\ ~aborted
    /\ ComponentArray_size(typeToArray[ArrayType]) = 2
    /\ last.entity = 1
    /\ typeToArray[ArrayType].indexToEntity = <<3, 2>>
    /\ typeToArray[ArrayType].components = <<2, 1>>


\* C26: ComponentManager::entityDestroyed(e) calls entityDestroyed(e) on every
\* registered component store; a store that holds e removes it exactly as
\* remove(e) would (e absent, size one less, every other entity still present
\* with its value), and a store that does not hold e is left unchanged and
\* does not fail.
C26_EntityDestroyedBroadcast ==
    [][ (last.op = "destroyEntity.systems" /\ last'.op = "destroyEntity.components")
          => LET e == last.entity
             IN  /\ ~aborted'
                 /\ DOMAIN typeToArray' = DOMAIN typeToArray
                 /\ \A T \in DOMAIN typeToArray :
                        LET a == typeToArray[T]
                            b == typeToArray'[T]
                        IN  IF ComponentArray_has(a, e)
                            THEN /\ b = ComponentArray_remove(a, e)
                                 /\ ~ComponentArray_has(b, e)
                                 /\ ComponentArray_size(b) = ComponentArray_size(a) - 1
                                 /\ \A x \in (DOMAIN a.entityToIndex) \ {e} :
                                        /\ ComponentArray_has(b, x)
                                        /\ ComponentArray_get(b, x) = ComponentArray_get(a, x)
                            ELSE b = a ]_vars

\* The broadcast has run for an entity that one store held in front of another
\* entity and the other store did not hold: the first store has lost it, the
\* second is as it was.
C26_Witness ==
    /\ last.op = "destroyEntity.components"
    /\ last.entity = 1
    /\ typeToArray["Position"].indexToEntity = <<2>>
    /\ typeToArray["Position"].components = <<2>>
    /\ typeToArray["Velocity"].indexToEntity = <<2>>
    /\ signatures[1] = {0}
    /\ signatures[2] = {0, 1}


\* The plain map a ComponentArray stands for: what has and get show of it.
AsMap(a) ==
    [e \in {x \in Entity : ComponentArray_has(a, x)} |-> ComponentArray_get(a, e)]

\* C27: a ComponentArray refines a plain map from entity to value.  The map
\* starts empty; insert(e, c) adds e with c and places e at dense index
\* size()-1, remove(e) and entityDestroyed(e) take e out, a write through
\* get(e) replaces e's value, and each leaves every other entity's entry as it
\* was; a call fails exactly when the map would refuse it; size() is the
\* number of entries.
C27_RefinesPlainMap ==
    [][ LET a == typeToArray[ArrayType]
            b == typeToArray'[ArrayType]
            m == AsMap(a)
            e == last'.entity
            Without(f, x) == [y \in (DOMAIN f) \ {x} |-> f[y]]
        IN  /\ ComponentArray_size(a) = Cardinality(DOMAIN m)
            /\ ComponentArray_size(b) = Cardinality(DOMAIN AsMap(b))
            /\ aborted' => AsMap(b) = m
            /\ \A x \in Entity, c \in ArrayValue :
                   IF ComponentArray_has(a, x)
                   THEN AsMap(ComponentArray_set(a, x, c)) = [m EXCEPT ![x] = c]
                   ELSE AsMap(ComponentArray_insert(a, x, c)) = MapPut(m, x, c)
            /\ Called("insert") =>
                  /\ aborted' <=> (e \in DOMAIN m)
                  /\ ~aborted' =>
                        /\ \E c \in ArrayValue : AsMap(b) = MapPut(m, e, c)
                        /\ b.entityToIndex[e] = ComponentArray_size(b) - 1
                        /\ b.indexToEntity[ComponentArray_size(b)] = e
            /\ Called("remove") =>
                  /\ aborted' <=> (e \notin DOMAIN m)
                  /\ ~aborted' => AsMap(b) = Without(m, e)
            /\ Called("entityDestroyed") =>
                  /\ ~aborted'
                  /\ AsMap(b) = Without(m, e)
            /\ Called("get") =>
                  /\ aborted' <=> (e \notin DOMAIN m)
                  /\ ~aborted' =>
                        \E c \in ArrayValue : AsMap(b) = [m EXCEPT ![e] = c] ]_vars

\* After three inserts and a swap-and-pop removal of the first entity, the two
\* remaining entities hold the values last stored for them.
C27_Witness ==
    /\ last.op = "remove"
    /\ last.entity = 1
    /\ ~aborted
    /\ AsMap(typeToArray[ArrayType]) = MapPut(MapPut(EmptyMap, 2, 2), 3, 1)
    /\ typeToArray[ArrayType].indexToEntity = <<3, 2>>


EntityCalls == {"addComponent", "removeComponent", "destroyEntity"}

\* C28: addComponent<T>(e, v), removeComponent<T>(e) and destroyEntity(e)
\* change only e: every other entity has the same stored signature, the same
\* value of each of its components of every type and the same membership in
\* every system's entity set after the call as before; the component stores of
\* types other than T are untouched by addComponent<T> and removeComponent<T>.
C28_OnlyTheEntityChanges ==
    [][ (\E op \in EntityCalls : Called(op))
          => LET e == last'.entity
             IN  /\ \A x \in Entity \ {e} :
                        /\ x \in DOMAIN signatures => signatures'[x] = signatures[x]
                        /\ \A T \in DOMAIN typeToArray :
                               LET a == typeToArray[T]
                                   b == typeToArray'[T]
                               IN  /\ ComponentArray_has(b, x) <=> ComponentArray_has(a, x)
                                   /\ ComponentArray_has(a, x) =>
                                         ComponentArray_get(b, x) = ComponentArray_get(a, x)
                        /\ \A h \in DOMAIN systemObjects :
                               (x \in systemObjects'[h].entities)
                                  <=> (x \in systemObjects[h].entities)
                 /\ DOMAIN typeToArray' = DOMAIN typeToArray
                 /\ DOMAIN systemObjects' = DOMAIN systemObjects
                 /\ (Called("addComponent") \/ Called("removeComponent"))
                       => \A T \in (DOMAIN typeToArray) \ {last'.type} :
                              typeToArray'[T] = typeToArray[T] ]_vars

\* destroyEntity(1) has swapped entity 2 into slot 0 of both stores, and
\* entity 2 still has its signature, its two values and its membership.
C28_Witness ==
    /\ last.op = "destroyEntity"
    /\ last.entity = 1
    /\ ~aborted
    /\ signatures[2] = {0, 1}
    /\ typeToArray["Position"].indexToEntity = <<2>>
    /\ typeToArray["Position"].components = <<2>>
    /\ typeToArray["Velocity"].indexToEntity = <<2>>
    /\ typeToArray["Velocity"].components = <<1>>
    /\ \E h \in MappedHandles : 2 \in systemObjects[h].entities


\* C29: provided destroyEntity is only ever called on live ids, in every
\* reachable state the recycling pool holds no duplicate id, no live id is in
\* the pool, the pool and the live set together are exactly 1..MAX_ENTITIES,
\* and livingCount + pool size = MAX_ENTITIES.
C29_PoolAndLivePartitionIds ==
    LET pool == {availableIds[i] : i \in 1 .. Len(availableIds)}
    IN  /\ \A i, j \in 1 .. Len(availableIds) : availableIds[i] = availableIds[j] => i = j
        /\ pool \cap live = {}
        /\ pool \cup live = 1 .. MAX_ENTITIES
        /\ livingCount + Len(availableIds) = MAX_ENTITIES

\* Id 1 has been created and destroyed and id 2 created after it: an id is
\* live and a recycled id waits in the pool.
C29_Witness ==
    /\ live = {2}
    /\ availableIds = <<1>>
    /\ livingCount = 1
    /\ last.op = "createEntity"
    /\ last.entity = 2
    /\ signatures[1] = EmptySignature
    /\ ~aborted


SignatureCalls == {"addComponent", "removeComponent", "makeSignature"}

\* C30: for any number of registerComponent calls, every bit index assigned to
\* a component type is smaller than MAX_COMPONENTS, so every signature set or
\* reset performed by addComponent, removeComponent and makeSignature
\* addresses a bit inside the fixed-width signature.
C30_AssignedBitsInsideSignature ==
    /\ \A T \in DOMAIN typeToBit : typeToBit[T] < MAX_COMPONENTS
    /\ (last.op \in SignatureCalls /\ last.type \in DOMAIN typeToBit)
          => BitInRange(typeToBit[last.type])


\* C31: after any sequence of registerSystem calls, including calls that reuse
\* a name, the update order contains each registered system exactly once, its
\* names are exactly the keys of the name-to-system map, and every system
\* handle registerSystem returned keeps receiving membership refreshes (the
\* map still holds it) and update calls (updateSystems reaches it when it is
\* enabled).
C31_EverySystemKeptOnce ==
    LET handles == 1 .. Len(systemObjects)
    IN  /\ \A h \in handles :
               Cardinality({i \in 1 .. Len(systemOrder) : systems[systemOrder[i]] = h}) = 1
        /\ {systemOrder[i] : i \in 1 .. Len(systemOrder)} = DOMAIN systems
        /\ MappedHandles = handles
        /\ (last.op = "updateSystems") =>
               \A h \in handles :
                   systemObjects[h].enabled => (\E i \in 1 .. Len(updateLog) : updateLog[i] = h)


\* C32: provided addComponent, removeComponent and destroyEntity are only
\* applied to ids that are currently created and not destroyed, in every
\* reachable World state every id held in any system's entity set or in any
\* component store is a currently live entity in 1..MAX_ENTITIES, and the
\* number of ids for which isAlive is true never exceeds getEntityCount().
C32_OnlyLiveIdsAreHeld ==
    /\ \A h \in DOMAIN systemObjects : systemObjects[h].entities \subseteq live
    /\ \A T \in DOMAIN typeToArray : DOMAIN typeToArray[T].entityToIndex \subseteq live
    /\ live \subseteq ValidEntity
    /\ Cardinality({e \in Entity : World_isAlive(e)}) <= livingCount


\* The numbers of the post calls behind a sequence of commands.
Ids(q) == [i \in 1 .. Len(q) |-> q[i].id]

\* C33: CommandManager::flush executes every queued command exactly once, in
\* the order the commands were posted, and returns only when the queue is
\* empty; a command posted by a command that runs during the flush is
\* executed in that same flush, after all commands that were queued before it.
C33_FlushDrainsInPostOrder ==
    [][ /\ Ids(executed') \o Ids(commandQueue') = [i \in 1 .. posted' |-> i]
        /\ (pc = "flush" /\ pc' # "flush") => (commandQueue = << >> /\ commandQueue' = << >>)
        /\ \A i \in 1 .. Len(executed') :
               /\ executed'[i].ranAt = "flush"
               /\ executed'[i].at = "flush" => executed'[i].ranIn = executed'[i].frame
      ]_vars

\* A flush has returned after running three commands: one queued before the
\* frame that posts another when it runs, one queued behind it, and last the
\* command the first one posted during the flush.
C33_Witness ==
    /\ pc = "update"
    /\ commandQueue = << >>
    /\ Len(executed) = 3
    /\ executed[1].kind = "post"
    /\ executed[2].at = "main"
    /\ executed[3].at = "flush"
    /\ executed[3].ranIn = 1


InLoop == pc \in {"test", "flush", "update", "swap"}

\* C35: after stop() is called while Engine::run is looping (from a flushed
\* command, a system update or swapBuffer), the iteration in progress runs to
\* completion and no further iteration starts, so run() returns; run() does
\* not return as long as stop() has not been called since run() began.
C35_StopEndsTheLoop ==
    /\ [][ /\ (running /\ ~running') =>
                  \/ last'.op = "stop"
                  \/ last'.op = "command" /\ last'.type = "stop"
           /\ (InLoop /\ ~running) =>
                  /\ frame' = frame
                  /\ ~running'
                  /\ (pc = "flush"  => pc' \in {"flush", "update"})
                  /\ (pc = "update" => pc' \in {"update", "swap"})
                  /\ (pc = "swap"   => pc' \in {"swap", "test"})
                  /\ (pc = "test"   => pc' \in {"test", "returned"})
           /\ (pc # "returned" /\ pc' = "returned") => (pc = "test" /\ ~running)
           /\ (pc = "returned") => (pc' = "returned")
         ]_vars
    /\ (InLoop /\ ~running) ~> (pc = "returned")

\* run() has returned in the frame in which a flushed command called stop(),
\* after that frame's updateSystems and swapBuffer.
C35_Witness ==
    /\ pc = "returned"
    /\ ~running
    /\ frame = 2
    /\ Len(executed) > 0
    /\ executed[Len(executed)].kind = "stop"
    /\ executed[Len(executed)].ranIn = 2
    /\ last.op = "while"


StopsExecuted == Cardinality({i \in 1 .. Len(executed) : executed[i].kind = "stop"})

\* C36: in hello_world, the stop command that the detached input thread posts
\* through CommandManager::post while the main thread is inside Engine::run is
\* executed exactly once by a later flush, after which the engine loop
\* terminates; post and flush never operate on the shared command queue at
\* the same time.
C36_PostAndFlushNeverOverlap ==
    /\ ~raced
    /\ ~aborted
    /\ StopsExecuted <= 1
    /\ (inputThread = "done") => (StopsExecuted = 1 \/ commandQueue # << >>)
    /\ (pc = "returned") => (StopsExecuted = 1)


\* C37: if window creation fails in Application's constructor, the application
\* state is set to idle and a subsequent Application::run() does not enter the
\* run loop: no menu engine and no simulation engine is created or run.
C37_NoEngineWithoutWindow ==
    (window = "failed") =>
        /\ appPc = "constructed" => applicationState = STATE_IDLE
        /\ appPc \in {"constructed", "loop", "returned"}
        /\ appPc = "loop" => applicationState = STATE_IDLE
        /\ engines = << >>

=============================================================================
